---- MODULE Spec2Model ----
(***************************************************************************)
(* A model of the retrieval backend of recaller: the binary filesystem     *)
(* path index (bloom filter, count-min sketch, fixed-size records, index   *)
(* file), the AVL command store with its prefix / fuzzy / ranked searches, *)
(* and the shell-history ingestion that fills the store.                   *)
(*                                                                         *)
(* Strings are sequences of bytes (naturals 0..255) so that byte-wise      *)
(* comparison, truncation and NUL padding are computed as the Go code      *)
(* computes them.  Instants are whole hours (the code stores seconds; one  *)
(* model unit is 3600 of them).                                            *)
(***************************************************************************)
EXTENDS Integers, Sequences, FiniteSets, TLC

VARIABLES
    env,              \* names what the surroundings offer during a behaviour:
                      \* the paths opened, the roots indexed, the clock readings,
                      \* the configured limits and the cleanup prefixes
    bloomFilter,      \* fi.bloomFilter: [m, k, bits]
    countMinSketch,   \* fi.countMinSketch.table, non-zero cells only
    pathRecords,      \* fi.pathRecords
    pathIndex,        \* fi.pathIndex: path -> 0-based position
    rootPaths,        \* fi.rootPaths
    isDirty,          \* fi.isDirty
    maxIndexedFiles,  \* fi.config.MaxIndexedFiles of the running process
    indexFile,        \* ~/.recaller_fs_index.bin: << >> when absent, else <<contents>>
    live,             \* history: paths passed to AddPath and not removed since
    saved,            \* history: <<records and roots at the last successful save>>
    adds,             \* history: <<per record, the AddPath calls on its path since
                      \* the record was created>>; << >> in the runs that keep no count
    indexed,          \* << >> or <<the last indexing call: its roots, the error it
                      \* returned, whether the file limit ended it>>, or <<the last
                      \* fs clean call: its flags, the file before it, what it removed>>
    synced,           \* history: <<filter, sketch, records and roots as constructed or
                      \* as the last successful save or load left them>>; << >> in
                      \* the runs that keep no such history
    tree,             \* AVLTree.Root of the command store
    history,          \* the []HistoryEntry the shell reader returned
    ingested,         \* number of completed readHistoryAndPopulateTree calls
    stored,           \* history: <<the keys inserted and not deleted since, and the
                      \* last operation on the store>>; << >> in the runs that keep
                      \* no such history
    helpCache,        \* the help cache's items: command -> [Object, Expiration]
    clock,            \* the wall clock of the help cache, in minutes
    helpResult,       \* history: <<the last dispatch: command, world, outcome>>
    lastWrite,        \* history: command -> the text last cached for it, and when
    session,          \* the file search UI: the AddPath call of the main goroutine
                      \* and the search of the debouncer goroutine, each with its
                      \* position, what the last search returned, the goroutine that
                      \* persists the access, and whether the process has exited
    debounce,         \* the search box: input buffer, last query searched, timer,
                      \* clock, and the positions of the key handler and the debouncer
    runner,           \* a RunWithTimeout call: the child, its descendants, the
                      \* pipe, the limited writer and the buffer behind it
    overstrike,       \* a text given to removeOverstrike, and how often it was applied
    lookups           \* the help lookups under way in the debouncer goroutine and in
                      \* the main goroutine, and the dispatches made for each command

idxVars   == <<env, bloomFilter, countMinSketch, pathRecords, pathIndex, rootPaths,
               isDirty, maxIndexedFiles, indexFile, live, saved, adds, indexed, synced>>
storeVars == <<tree, history, ingested, stored>>
helpVars  == <<helpCache, clock, helpResult, lastWrite>>
uiVars    == <<session, debounce, runner, overstrike, lookups>>
vars      == <<env, bloomFilter, countMinSketch, pathRecords, pathIndex, rootPaths,
               isDirty, maxIndexedFiles, indexFile, live, saved, adds, indexed, synced,
               tree, history, ingested, stored, helpCache, clock, helpResult, lastWrite,
               session, debounce, runner, overstrike, lookups>>

Nil == << >>    \* a nil pointer; a non-nil one is <<what it points to>>

-----------------------------------------------------------------------------
(* Program constants                                                       *)

MaxPathLength == 512
CountMinWidth == 2048
CountMinDepth == 4
FlagIsDirectory == 1
FlagIsHidden    == 2
FlagIsSymlink   == 4
MaxSearchResults == 50
ZeroTime == 0 - 17259888     \* time.Time{} (1 January of year 1), in hours from 1970

(* Model bounds                                                            *)

MaxFiles          == 2     \* largest max_indexed_files a run is configured with
BloomFilterSize   == 5     \* config.BloomFilterSize (bits)
BloomFilterHashes == 2     \* config.BloomFilterHashes
MaxAccess         == 2     \* AddPath is not called on a path counted this often
MaxHour           == 2     \* instants range over 0..MaxHour
MaxFreq           == 2     \* largest frequency an inserted command carries
MaxHistory        == 3     \* longest shell history read
MaxIngest         == 2     \* history ingestions in one behaviour
MaxClock          == 60    \* the help cache is observed for this many minutes

-----------------------------------------------------------------------------
(* Byte strings                                                            *)

SetMin(S) == CHOOSE x \in S : \A y \in S : x <= y
SetMax(S) == CHOOSE x \in S : \A y \in S : x >= y

Rep(b, n) == [i \in 1..n |-> b]

\* Go's string comparison: byte-wise lexicographic, a proper prefix is smaller.
StrLess(a, b) ==
    LET n == IF Len(a) < Len(b) THEN Len(a) ELSE Len(b)
        diff == {i \in 1..n : a[i] # b[i]}
    IN IF diff = {} THEN Len(a) < Len(b)
       ELSE a[SetMin(diff)] < b[SetMin(diff)]

StrLeq(a, b) == a = b \/ StrLess(a, b)

\* strings.HasPrefix
HasPrefix(s, p) == Len(s) >= Len(p) /\ SubSeq(s, 1, Len(p)) = p

\* strings.Contains
Contains(s, sub) ==
    \E i \in 0..(Len(s) - Len(sub)) : SubSeq(s, i + 1, i + Len(sub)) = sub

\* strings.ToLower on the bytes that have a case mapping in the alphabet used
\* here (ASCII letters); every other byte is its own lower case.
ToLower(s) == [i \in 1..Len(s) |-> IF s[i] >= 65 /\ s[i] <= 90 THEN s[i] + 32 ELSE s[i]]

\* filepath.Base: strip trailing slashes, keep what follows the last slash;
\* "" gives ".", a string of slashes gives "/".
Base(path) ==
    IF path = << >> THEN <<46>>
    ELSE IF \A i \in 1..Len(path) : path[i] = 47 THEN <<47>>
    ELSE LET e == CHOOSE i \in 1..Len(path) :
                     path[i] # 47 /\ \A j \in (i + 1)..Len(path) : path[j] = 47
             b == IF \E i \in 1..e : path[i] = 47
                  THEN 1 + CHOOSE i \in 1..e :
                              path[i] = 47 /\ \A j \in (i + 1)..e : path[j] # 47
                  ELSE 1
         IN SubSeq(path, b, e)

-----------------------------------------------------------------------------
(* Count-min sketch (fs_indexer.go, CountMinSketch)                        *)

\* Bitwise exclusive or of two naturals below 2^11 (the hash bits kept here).
XorBit(a, b, w) == ((((a \div w) % 2) + ((b \div w) % 2)) % 2) * w

Xor(a, b) ==
    XorBit(a, b, 1) + XorBit(a, b, 2) + XorBit(a, b, 4) + XorBit(a, b, 8)
    + XorBit(a, b, 16) + XorBit(a, b, 32) + XorBit(a, b, 64) + XorBit(a, b, 128)
    + XorBit(a, b, 256) + XorBit(a, b, 512) + XorBit(a, b, 1024)

\* FNV-1a (32 bit) reduced modulo CountMinWidth.  h.Sum32() % 2048 keeps the
\* low 11 bits of the hash, and the low 11 bits of (h XOR byte) * 16777619
\* depend only on the low 11 bits of h: the fold is carried out on them, with
\* offset basis 2166136261 % 2048 = 1477 and prime 16777619 % 2048 = 403.
FnvOffsetLow == 1477
FnvPrimeLow  == 403

\* The fold over bytes[lo..hi], split in halves to keep the evaluation shallow
\* (h is never negative: testing it first makes the left half be computed
\* before the right half is entered).
RECURSIVE FnvFold(_, _, _, _)
FnvFold(bytes, lo, hi, h) ==
    IF h < 0 \/ lo > hi THEN h
    ELSE IF lo = hi THEN (Xor(h, bytes[lo]) * FnvPrimeLow) % CountMinWidth
    ELSE LET mid == (lo + hi) \div 2
         IN FnvFold(bytes, mid + 1, hi, FnvFold(bytes, lo, mid, h))

\* cms.hash(item, row): item bytes followed by the row number as salt.
HashOf(item, row) ==
    (Xor(FnvFold(item, 1, Len(item), FnvOffsetLow), row) * FnvPrimeLow) % CountMinWidth

\* The hashes of the strings that occur as paths, computed once.
KnownStrings ==
    {<< >>, <<97>>, <<97, 98>>, <<47, 100>>, <<47, 100, 47, 102>>,
     <<47, 101>>, <<47, 101, 47, 102>>,
     Rep(99, MaxPathLength + 1), Rep(99, MaxPathLength - 1), Rep(0, MaxPathLength)}

HashMemo == [s \in KnownStrings |-> [r \in 0..(CountMinDepth - 1) |-> HashOf(s, r)]]

SketchHash(item, row) ==
    IF item \in KnownStrings /\ row < CountMinDepth
    THEN HashMemo[item][row]
    ELSE HashOf(item, row)

NewCountMinSketch == << >>

SketchCell(table, c) == IF c \in DOMAIN table THEN table[c] ELSE 0

\* cms.Add: one cell per row is incremented by count.  The table is kept as
\* the function of its non-zero cells.
SketchAdd(table, item, count) ==
    LET hit == {<<r, SketchHash(item, r)>> : r \in 0..(CountMinDepth - 1)}
        val(c) == SketchCell(table, c) + (IF c \in hit THEN count ELSE 0)
        keep == {c \in (DOMAIN table) \cup hit : val(c) # 0}
    IN [c \in keep |-> val(c)]

\* cms.Estimate: minimum over the rows.
SketchEstimate(table, item) ==
    SetMin({SketchCell(table, <<r, SketchHash(item, r)>>) : r \in 0..(CountMinDepth - 1)})

-----------------------------------------------------------------------------
(* Bloom filter (github.com/willf/bloom as used by fs_indexer.go)          *)

\* The k bit positions of a string: double hashing over two string hashes,
\* as the library derives its locations from a base hash of the data.
BloomLocations(f, s) ==
    LET h1 == SketchHash(s, 0)
        h2 == SketchHash(s, 1)
    IN {(h1 + i * (h2 + 1)) % f.m : i \in 0..(f.k - 1)}

BloomNew(m, k) == [m |-> m, k |-> k, bits |-> {}]

BloomAddString(f, s) == [f EXCEPT !.bits = @ \cup BloomLocations(f, s)]

BloomTestString(f, s) == BloomLocations(f, s) \subseteq f.bits

-----------------------------------------------------------------------------
(* Path records                                                            *)

\* A [MaxPathLength]byte array is represented by its bytes up to the last
\* non-zero one; the bytes after them, up to MaxPathLength, are NUL.
ByteArray(bytes) ==
    IF \A i \in 1..Len(bytes) : bytes[i] = 0 THEN << >>
    ELSE SubSeq(bytes, 1, CHOOSE i \in 1..Len(bytes) :
                             bytes[i] # 0 /\ \A j \in (i + 1)..Len(bytes) : bytes[j] = 0)

\* All MaxPathLength bytes of an array.
ArrayBytes(arr) == arr \o Rep(0, MaxPathLength - Len(arr))

\* fi.pathToBytes: the path cut to MaxPathLength-1 bytes, copied into a zeroed
\* array.
pathToBytes(path) ==
    ByteArray(IF Len(path) > MaxPathLength - 1
              THEN SubSeq(path, 1, MaxPathLength - 1) ELSE path)

\* fi.bytesToPath: the bytes before the first NUL; when the first NUL is at
\* offset 0, or there is none, end stays 0 and the whole array is returned.
bytesToPath(arr) ==
    LET end == IF \E i \in 1..Len(arr) : arr[i] = 0
               THEN (CHOOSE i \in 1..Len(arr) :
                        arr[i] = 0 /\ \A j \in 1..(i - 1) : arr[j] # 0) - 1
               ELSE IF Len(arr) < MaxPathLength THEN Len(arr)
               ELSE 0
    IN IF end = 0 THEN ArrayBytes(arr) ELSE SubSeq(arr, 1, end)

\* Flag byte computed from the os.Lstat outcome in AddPath.
FlagsOf(path, lstat) ==
    IF lstat = "err" THEN 0
    ELSE (IF lstat = "dir" THEN FlagIsDirectory ELSE 0)
         + (IF HasPrefix(Base(path), <<46>>) THEN FlagIsHidden ELSE 0)
         + (IF lstat = "symlink" THEN FlagIsSymlink ELSE 0)

\* The path -> position map built by replaying a record sequence: a later
\* record with the same decoded path overwrites the earlier entry.
IndexOfPaths(paths) ==
    [p \in {paths[i] : i \in 1..Len(paths)} |->
        SetMax({i \in 1..Len(paths) : paths[i] = p}) - 1]

DecodedPaths(records) == [i \in 1..Len(records) |-> bytesToPath(records[i].Path)]

TestMembership(path) == BloomTestString(bloomFilter, path)

GetFrequency(path) == SketchEstimate(countMinSketch, path)

-----------------------------------------------------------------------------
(* Inputs of the path index                                                *)

HoursPerDay == 24

PathEmpty == << >>                        \* ""
PathA     == <<97>>                       \* "a"
PathLong  == Rep(99, MaxPathLength + 1)   \* 513 bytes "ccc...c"
RootD     == <<47, 100>>                  \* "/d"
FileDF    == <<47, 100, 47, 102>>         \* "/d/f"
RootE     == <<47, 101>>                  \* "/e"

PathAB    == <<97, 98>>                   \* "ab"
Later     == HoursPerDay + MaxHour        \* an instant more than a day after instant 0

KeyA      == <<97>>                       \* "a"
KeyUpperA == <<65>>                       \* "A"
KeyGrin   == <<97, 240, 159, 152, 128>>   \* "a" and U+1F600 in UTF-8
KeyBeam   == <<97, 240, 159, 152, 129>>   \* "a" and U+1F601 in UTF-8
CmdLs     == <<108, 115>>                 \* "ls"
CmdCd     == <<99, 100>>                  \* "cd"

\* Shell history entries: a command without text, a command without
\* timestamp, and two commands at two instants.
HistoryEntries ==
    {[Command |-> << >>, Timestamp |-> <<0>>], [Command |-> CmdLs, Timestamp |-> Nil]}
    \cup {[Command |-> c, Timestamp |-> <<t>>] : c \in {CmdLs, CmdCd}, t \in {0, MaxHour}}

Histories == UNION {[1..n -> HistoryEntries] : n \in 0..MaxHistory}

\* How a save can end: "ok"; "create" when os.Create fails; or the section
\* whose write fails, after os.Create has emptied the file and the sections
\* before it have been written.  A process that is killed during the save
\* leaves the same files.
AllSaveOutcomes == {"ok", "create", "header", "roots", "bloom", "sketch", "records"}

\* The keys of a store that inserts and deletes: "a", "b", ...
MaxStoreKeys == 7
StoreKeys == {<<96 + i>> : i \in 1..MaxStoreKeys}

NoCommands == [commands |-> {}, stamps |-> {}, histories |-> {<< >>}, ingests |-> 0]
NoPaths    == [paths |-> {}, roots |-> {}, maxes |-> {1}, instants |-> {}, lstats |-> {},
               prefixes |-> {}, rootLists |-> {}]

\* The surroundings a behaviour can run in: two short file names under every
\* configured limit; the empty and an over-long path at different times; a
\* directory tree to index; a list of two roots to index under a limit of
\* one file; a file and an unreadable root on a disk whose writes can fail;
\* two roots that are refreshed and can vanish; two files searched for and
\* opened in the file search UI; commands inserted into the store; a shell
\* history to ingest; keys inserted into the store and deleted from it; two
\* roots indexed and cleaned by commands.
Environments ==
    [e \in {"files", "odd", "tree", "roots", "disk", "refresh", "session", "store",
             "shell", "avl", "clean"} |->
        CASE e = "files" ->
               [paths |-> {PathA, PathAB}, roots |-> {}, rootLists |-> {}, maxes |-> 1..MaxFiles,
                instants |-> {0}, nows |-> {0}, lstats |-> {"file"},
                prefixes |-> {<< >>, PathAB},
                queries |-> {<< >>, KeyA, KeyUpperA, PathAB}] @@ NoCommands
          [] e = "odd" ->
               [paths |-> {PathEmpty, PathLong}, roots |-> {}, rootLists |-> {}, maxes |-> {1},
                instants |-> {0}, nows |-> {0, Later}, lstats |-> {"file", "dir"},
                prefixes |-> {<< >>}, queries |-> {<< >>}] @@ NoCommands
          [] e = "tree" ->
               [paths |-> {}, roots |-> {RootD}, rootLists |-> {}, maxes |-> 1..MaxFiles,
                instants |-> {0}, nows |-> {0}, lstats |-> {"file"},
                prefixes |-> {<< >>, FileDF},
                queries |-> {<< >>, <<100>>, <<102>>, RootD}] @@ NoCommands
          [] e = "roots" ->
               [paths |-> {}, roots |-> {}, rootLists |-> {<< >>, <<RootD, RootE>>},
                maxes |-> {1}, instants |-> {0}, nows |-> {0}, lstats |-> {"file"},
                prefixes |-> {<< >>}, queries |-> {<< >>}] @@ NoCommands
          [] e = "disk" ->
               [paths |-> {PathA}, roots |-> {RootD}, rootLists |-> {},
                maxes |-> {1}, instants |-> {0}, nows |-> {0}, lstats |-> {"file"},
                prefixes |-> {PathA}, queries |-> {<< >>},
                saves |-> AllSaveOutcomes] @@ NoCommands
          [] e = "refresh" ->
               [paths |-> {}, roots |-> {}, rootLists |-> {<<RootD, RootE>>},
                maxes |-> {1}, instants |-> {0}, nows |-> {0}, lstats |-> {"file"},
                prefixes |-> {<< >>}, queries |-> {<< >>},
                saves |-> {"ok", "create", "sketch"}] @@ NoCommands
          [] e = "session" ->
               [paths |-> {PathA, PathAB}, roots |-> {}, rootLists |-> {},
                maxes |-> {MaxFiles}, instants |-> {0}, nows |-> {Later}, lstats |-> {"file"},
                prefixes |-> {<< >>}, queries |-> {KeyA, PathAB}] @@ NoCommands
          [] e = "store" ->
               [commands |-> {KeyA, KeyGrin, KeyBeam},
                stamps |-> {Nil, <<ZeroTime>>, <<0>>, <<MaxHour>>},
                histories |-> {<< >>}, ingests |-> 0, nows |-> {0, MaxHour},
                queries |-> {<< >>, KeyA, KeyUpperA, KeyGrin}] @@ NoPaths
          [] e = "shell" ->
               [commands |-> {}, stamps |-> {}, histories |-> Histories,
                ingests |-> MaxIngest, nows |-> {0, MaxHour},
                queries |-> {<< >>, CmdLs}] @@ NoPaths
          [] e = "clean" ->
               [paths |-> {}, roots |-> {}, rootLists |-> {<<RootD, RootE>>},
                maxes |-> {MaxFiles}, instants |-> {0}, nows |-> {0, Later}, lstats |-> {"file"},
                prefixes |-> {<< >>, RootD}, queries |-> {<< >>},
                saves |-> {"ok", "sketch"}] @@ NoCommands
          [] e = "avl" ->
               [commands |-> StoreKeys, stamps |-> {Nil}, histories |-> {<< >>},
                ingests |-> 0, nows |-> {0}, queries |-> {<< >>}] @@ NoPaths]

Env == Environments[env]

IgnorePatterns == << <<46, 103, 105, 116>>, <<42, 46, 116, 109, 112>> >>  \* ".git", "*.tmp"

\* The in-memory index as one value.
IndexState ==
    [bloomFilter |-> bloomFilter, countMinSketch |-> countMinSketch,
     pathRecords |-> pathRecords, pathIndex |-> pathIndex,
     rootPaths |-> rootPaths, isDirty |-> isDirty]

\* NewFilesystemIndexer
NewIndexState ==
    [bloomFilter |-> BloomNew(BloomFilterSize, BloomFilterHashes),
     countMinSketch |-> NewCountMinSketch,
     pathRecords |-> << >>, pathIndex |-> << >>,
     rootPaths |-> << >>, isDirty |-> FALSE]

SetIndexState(s) ==
    /\ bloomFilter' = s.bloomFilter
    /\ countMinSketch' = s.countMinSketch
    /\ pathRecords' = s.pathRecords
    /\ pathIndex' = s.pathIndex
    /\ rootPaths' = s.rootPaths
    /\ isDirty' = s.isDirty

-----------------------------------------------------------------------------
(* AddPath                                                                 *)

AddPathTo(s, max, path, timestamp, lstat) ==
    LET existed == BloomTestString(s.bloomFilter, path)
        bf  == BloomAddString(s.bloomFilter, path)
        cms == SketchAdd(s.countMinSketch, path, 1)
        s1  == [s EXCEPT !.bloomFilter = bf, !.countMinSketch = cms, !.isDirty = TRUE]
    IN IF existed /\ path \in DOMAIN s.pathIndex
       THEN LET idx == s.pathIndex[path] + 1
            IN [s1 EXCEPT !.pathRecords[idx].Timestamp = timestamp,
                          !.pathRecords[idx].AccessCount = @ + 1]
       ELSE IF Len(s.pathRecords) >= max
       THEN s1
       ELSE LET record == [Path |-> pathToBytes(path),
                           Timestamp |-> timestamp,
                           AccessCount |-> SketchEstimate(cms, path),
                           Flags |-> FlagsOf(path, lstat)]
            IN [s1 EXCEPT !.pathIndex = [p \in (DOMAIN s.pathIndex) \cup {path} |->
                                           IF p = path THEN Len(s.pathRecords)
                                           ELSE s.pathIndex[p]],
                          !.pathRecords = Append(s.pathRecords, record)]

\* What an AddPath call that took the index from s to s2 means for the count
\* of adds: the record the map held for the path (0 when none) has one more,
\* and a record that was appended has its first.
AddEvent(s, s2, path) ==
    [at |-> IF path \in DOMAIN s.pathIndex /\ s.pathIndex[path] < Len(s.pathRecords)
            THEN s.pathIndex[path] + 1 ELSE 0,
     grew |-> Len(s2.pathRecords) > Len(s.pathRecords)]

RECURSIVE ApplyAdds(_, _, _)
ApplyAdds(a, events, i) ==
    IF i > Len(events) THEN a
    ELSE LET e  == events[i]
             a1 == IF e.at > 0 THEN [a EXCEPT ![e.at] = @ + 1] ELSE a
         IN ApplyAdds(IF e.grew THEN Append(a1, 1) ELSE a1, events, i + 1)

\* The count of adds after the events, in a run that keeps it.
AddsAfter(a, events) == IF a = << >> THEN a ELSE <<ApplyAdds(a[1], events, 1)>>

\* The count of adds of an index without records, in a run that keeps it.
NoAdds(a) == IF a = << >> THEN a ELSE << << >> >>

AddPath(path, timestamp, lstat) ==
    /\ SketchEstimate(countMinSketch, path) < MaxAccess
    /\ SetIndexState(AddPathTo(IndexState, maxIndexedFiles, path, timestamp, lstat))
    /\ live' = live \cup {path}
    /\ adds' = AddsAfter(adds, <<AddEvent(IndexState, IndexState', path)>>)
    /\ UNCHANGED <<env, maxIndexedFiles, indexFile, saved, indexed, synced, storeVars,
                   helpVars, uiVars>>

-----------------------------------------------------------------------------
(* Directory indexing                                                      *)

\* filepath.Match of a pattern against a name, for the two pattern shapes of
\* the configured ignore list: a literal, or "*" followed by a literal.
GlobMatch(pattern, name) ==
    IF pattern # << >> /\ pattern[1] = 42
    THEN LET suffix == SubSeq(pattern, 2, Len(pattern))
         IN /\ Len(name) >= Len(suffix)
            /\ SubSeq(name, Len(name) - Len(suffix) + 1, Len(name)) = suffix
            /\ \A i \in 1..(Len(name) - Len(suffix)) : name[i] # 47
    ELSE pattern = name

shouldSkipPath(path) ==
    \/ \E i \in 1..Len(IgnorePatterns) : GlobMatch(IgnorePatterns[i], Base(path))
    \/ \E i \in 1..Len(IgnorePatterns) : Contains(path, IgnorePatterns[i])

\* filepath.Clean for paths without "." and ".." elements: repeated slashes
\* collapse and a trailing slash is dropped (the root "/" stays).
RECURSIVE CleanFrom(_, _, _)
CleanFrom(p, i, out) ==
    IF i > Len(p) THEN out
    ELSE IF p[i] = 47 /\ out # << >> /\ out[Len(out)] = 47
         THEN CleanFrom(p, i + 1, out)
         ELSE CleanFrom(p, i + 1, Append(out, p[i]))

Clean(p) ==
    LET c == CleanFrom(p, 1, << >>)
    IN IF c = << >> THEN <<46>>
       ELSE IF Len(c) > 1 /\ c[Len(c)] = 47 THEN SubSeq(c, 1, Len(c) - 1)
       ELSE c

Cwd == <<47>>

\* filepath.Abs
Abs(p) == IF p # << >> /\ p[1] = 47 THEN Clean(p) ELSE Clean(Cwd \o <<47>> \o p)

\* fi.addRootPath
addRootPathTo(s, rootPath) ==
    LET absPath == Abs(rootPath)
    IN IF \E i \in 1..Len(s.rootPaths) : s.rootPaths[i] = absPath
       THEN s
       ELSE [s EXCEPT !.rootPaths = Append(@, absPath), !.isDirty = TRUE]

\* What filepath.WalkDir reports for a root, entry by entry: the root itself
\* (an error entry when it cannot be lstat'ed), then its file.
Walks(root) ==
    LET r  == [path |-> root, err |-> "none", dir |-> TRUE]
        f  == [path |-> root \o <<47, 102>>, err |-> "none", dir |-> FALSE]
    IN { << [r EXCEPT !.err = "io"] >>,
         << r >>,
         << r, f >>,
         << r, [f EXCEPT !.err = "perm"] >>,
         << r, [f EXCEPT !.err = "io"] >> }

\* The walks of a root that has no readable entries below it, and those of
\* a root that cannot be read itself.
RootWalks(root) == {w \in Walks(root) : Len(w) = 1}

UnreadableWalks(root) == {w \in Walks(root) : w[1].err = "io"}

\* The WalkDir callback of IndexDirectoryWithProgress applied to the entries
\* from position i on.  w carries the index state, the count of entries added,
\* the directory being pruned (SkipDir, << >> when none) and the error that ended the walk.
\* The walk after fi.AddPath(path, time.Now()) has taken the index to s2.
Walked(w, path, s2) ==
    [w EXCEPT !.s = s2,
              !.count = @ + 1,
              !.added = @ \cup {path},
              !.events = Append(@, AddEvent(w.s, s2, path))]

RECURSIVE WalkFrom(_, _, _, _, _)
WalkFrom(w, entries, i, max, now) ==
    IF i > Len(entries) \/ w.err # "none" THEN w
    ELSE LET e == entries[i]
         IN IF w.pruned # << >> /\ HasPrefix(e.path, w.pruned[1] \o <<47>>)
            THEN WalkFrom(w, entries, i + 1, max, now)
            ELSE IF e.err = "perm"
            THEN WalkFrom(w, entries, i + 1, max, now)
            ELSE IF e.err # "none"
            THEN [w EXCEPT !.err = "io"]
            ELSE IF shouldSkipPath(e.path)
            THEN WalkFrom(IF e.dir THEN [w EXCEPT !.pruned = <<e.path>>] ELSE w,
                          entries, i + 1, max, now)
            ELSE IF w.count >= max
            THEN [w EXCEPT !.err = "limit"]
            ELSE WalkFrom(Walked(w, e.path,
                                 AddPathTo(w.s, max, e.path, now,
                                           IF e.dir THEN "dir" ELSE "file")),
                          entries, i + 1, max, now)

IndexDirectoryResult(s, max, rootPath, entries, now) ==
    WalkFrom([s |-> addRootPathTo(s, rootPath), count |-> 0, pruned |-> << >>,
              err |-> "none", added |-> {}, events |-> << >>],
             entries, 1, max, now)

\* The state after an indexing call of the given roots whose walks ended as
\* w.  The call returns err, or with "walk" the error that ended the walk.
Indexed(w, roots, err) ==
    /\ SetIndexState(w.s)
    /\ live' = live \cup w.added
    /\ adds' = AddsAfter(adds, w.events)
    /\ indexed' = <<[roots |-> roots, err |-> IF err = "walk" THEN w.err ELSE err,
                     limit |-> w.err = "limit"]>>
    /\ UNCHANGED <<env, maxIndexedFiles, indexFile, saved, synced, storeVars, helpVars, uiVars>>

IndexDirectoryWithProgress(rootPath, entries, now) ==
    /\ \A i \in 1..Len(entries) :
          SketchEstimate(countMinSketch, entries[i].path) < MaxAccess
    /\ Indexed(IndexDirectoryResult(IndexState, maxIndexedFiles, rootPath, entries, now),
               <<rootPath>>, "walk")

\* IndexDirectoriesWithProgress: the roots in order, one count for the whole
\* call; a walk that ends at the limit ends the loop, any other error is
\* logged and the next root is walked.
RECURSIVE IndexRootsFrom(_, _, _, _, _, _)
IndexRootsFrom(w, roots, i, walks, max, now) ==
    IF i > Len(roots) \/ w.err = "limit" THEN w
    ELSE IndexRootsFrom(WalkFrom([w EXCEPT !.s = addRootPathTo(w.s, roots[i]),
                                           !.pruned = << >>, !.err = "none"],
                                 walks[roots[i]], 1, max, now),
                        roots, i + 1, walks, max, now)

IndexDirectoriesResult(s, max, roots, walks, now) ==
    IndexRootsFrom([s |-> s, count |-> 0, pruned |-> << >>, err |-> "none",
                    added |-> {}, events |-> << >>],
                   roots, 1, walks, max, now)

\* What WalkDir can report for each root of a list.
WalksOf(roots) ==
    LET rs == {roots[i] : i \in 1..Len(roots)}
    IN {f \in [rs -> UNION {Walks(r) : r \in rs}] : \A r \in rs : f[r] \in Walks(r)}

RootWalksOf(roots) == {x \in WalksOf(roots) : \A r \in DOMAIN x : x[r] \in RootWalks(r)}

IndexDirectoriesWithProgress(roots, walks, now) ==
    IF roots = << >>
    THEN /\ indexed' = <<[roots |-> roots, err |-> "empty", limit |-> FALSE]>>
         /\ UNCHANGED <<env, bloomFilter, countMinSketch, pathRecords, pathIndex,
                        rootPaths, isDirty, maxIndexedFiles, indexFile, live, saved,
                        adds, synced, storeVars, helpVars, uiVars>>
    ELSE /\ \A r \in DOMAIN walks : \A i \in 1..Len(walks[r]) :
                SketchEstimate(countMinSketch, walks[r][i].path) < MaxAccess
         /\ Indexed(IndexDirectoriesResult(IndexState, maxIndexedFiles, roots, walks, now),
                    roots, "none")

-----------------------------------------------------------------------------
(* Cleanup and clear                                                       *)

\* The rules with the age threshold applied whatever the number of days.
CleanupRuleAnyAge(record, prefix, removeStale, olderThanDays, now, missing) ==
    LET path == bytesToPath(record.Path)
        oldThreshold == now - HoursPerDay * olderThanDays
    IN IF prefix # << >> /\ HasPrefix(path, prefix) THEN "prefix"
       ELSE IF removeStale /\ path \in missing THEN "stale"
       ELSE IF record.Timestamp < oldThreshold THEN "old"
       ELSE "keep"

\* The rule that removes a record in CleanupIndex, or "keep": path prefix
\* first, then the stale check, then the age threshold.
CleanupRule(record, prefix, removeStale, olderThanDays, now, missing) ==
    LET path == bytesToPath(record.Path)
        oldThreshold == now - HoursPerDay * olderThanDays
    IN IF prefix # << >> /\ HasPrefix(path, prefix) THEN "prefix"
       ELSE IF removeStale /\ path \in missing THEN "stale"
       ELSE IF olderThanDays > 0 /\ record.Timestamp < oldThreshold THEN "old"
       ELSE "keep"

\* A rebuild that counts every retained record once.
RECURSIVE ReplayRecordsOnce(_, _, _)
ReplayRecordsOnce(records, i, bs) ==
    IF i > Len(records) THEN bs
    ELSE LET path == bytesToPath(records[i].Path)
         IN ReplayRecordsOnce(records, i + 1,
                [bloom |-> BloomAddString(bs.bloom, path),
                 sketch |-> SketchAdd(bs.sketch, path, 1)])

RECURSIVE ReplayRecords(_, _, _)
ReplayRecords(records, i, bs) ==
    IF i > Len(records) THEN bs
    ELSE LET path == bytesToPath(records[i].Path)
         IN ReplayRecords(records, i + 1,
                [bloom |-> BloomAddString(bs.bloom, path),
                 sketch |-> SketchAdd(bs.sketch, path, records[i].AccessCount)])

CleanupResult(s, prefix, removeStale, olderThanDays, now, missing) ==
    LET keepAt == {i \in 1..Len(s.pathRecords) :
                     CleanupRule(s.pathRecords[i], prefix, removeStale,
                                 olderThanDays, now, missing) = "keep"}
        nth(k) == CHOOSE i \in keepAt : Cardinality({j \in keepAt : j < i}) = k - 1
        validRecords == [k \in 1..Cardinality(keepAt) |-> s.pathRecords[nth(k)]]
        validPaths == DecodedPaths(validRecords)
        removedPaths == {bytesToPath(s.pathRecords[i].Path) :
                            i \in (1..Len(s.pathRecords)) \ keepAt}
        removedKeys == {p \in DOMAIN s.pathIndex : s.pathIndex[p] + 1 \notin keepAt}
        rebuilt == ReplayRecords(validRecords, 1,
                       [bloom |-> BloomNew(BloomFilterSize, BloomFilterHashes),
                        sketch |-> NewCountMinSketch])
    IN [removedPaths |-> removedPaths \cup removedKeys,
        kept |-> IF removedPaths # {} THEN [k \in 1..Cardinality(keepAt) |-> nth(k)]
                 ELSE [k \in 1..Len(s.pathRecords) |-> k],
        s |-> IF removedPaths # {}
              THEN [s EXCEPT !.pathRecords = validRecords,
                             !.pathIndex = IndexOfPaths(validPaths),
                             !.bloomFilter = rebuilt.bloom,
                             !.countMinSketch = rebuilt.sketch,
                             !.isDirty = TRUE]
              ELSE s]

\* Counters that run every enabled check on every record.
CleanupCountAll(stats, record, options, now, missing) ==
    LET path == bytesToPath(record.Path)
        byPrefix == options.Path # << >> /\ HasPrefix(path, options.Path)
        byStale == options.RemoveStale /\ path \in missing
        byAge == /\ options.OlderThanDays > 0
                 /\ record.Timestamp < now - HoursPerDay * options.OlderThanDays
    IN [stats EXCEPT !.RemovedEntries = @ + (IF byPrefix THEN 1 ELSE 0)
                                          + (IF byStale THEN 1 ELSE 0)
                                          + (IF byAge THEN 1 ELSE 0),
                     !.StaleFiles = @ + (IF byStale THEN 1 ELSE 0),
                     !.OldFiles = @ + (IF byAge THEN 1 ELSE 0)]

\* The counters of CleanupIndex after one record: each check runs only when
\* no earlier one has set shouldRemove.
CleanupCount(stats, record, options, now, missing) ==
    LET path == bytesToPath(record.Path)
        byPrefix == options.Path # << >> /\ HasPrefix(path, options.Path)
        byStale == ~byPrefix /\ options.RemoveStale /\ path \in missing
        byAge == /\ ~byPrefix /\ ~byStale
                 /\ options.OlderThanDays > 0
                 /\ record.Timestamp < now - HoursPerDay * options.OlderThanDays
    IN [stats EXCEPT !.RemovedEntries = @ + (IF byPrefix \/ byStale \/ byAge THEN 1 ELSE 0),
                     !.StaleFiles = @ + (IF byStale THEN 1 ELSE 0),
                     !.OldFiles = @ + (IF byAge THEN 1 ELSE 0)]

RECURSIVE CleanupStatsFrom(_, _, _, _, _, _)
CleanupStatsFrom(stats, records, i, options, now, missing) ==
    IF i > Len(records) THEN stats
    ELSE CleanupStatsFrom(CleanupCount(stats, records[i], options, now, missing),
                          records, i + 1, options, now, missing)

\* The *CleanupStats CleanupIndex returns (without the reclaimed kilobytes).
CleanupStats(s, options, now, missing) ==
    CleanupStatsFrom([TotalEntries |-> Len(s.pathRecords), RemovedEntries |-> 0,
                      StaleFiles |-> 0, OldFiles |-> 0],
                     s.pathRecords, 1, options, now, missing)

\* Paths os.Stat can report as not existing: the decoded record paths that
\* are valid file names (no NUL byte).
Statable == {p \in {bytesToPath(pathRecords[i].Path) : i \in 1..Len(pathRecords)} :
                \A j \in 1..Len(p) : p[j] # 0}

CleanupIndex(prefix, removeStale, olderThanDays, now, missing) ==
    LET r == CleanupResult(IndexState, prefix, removeStale, olderThanDays, now, missing)
    IN /\ SetIndexState(r.s)
       /\ live' = live \ r.removedPaths
       /\ adds' = IF adds = << >> THEN adds
                  ELSE <<[k \in 1..Len(r.kept) |-> adds[1][r.kept[k]]]>>
       /\ UNCHANGED <<env, maxIndexedFiles, indexFile, saved, indexed, synced, storeVars,
                   helpVars, uiVars>>

ClearIndex ==
    /\ SetIndexState([NewIndexState EXCEPT !.isDirty = TRUE])
    /\ live' = {}
    /\ adds' = NoAdds(adds)
    /\ UNCHANGED <<env, maxIndexedFiles, indexFile, saved, indexed, synced, storeVars,
                   helpVars, uiVars>>

-----------------------------------------------------------------------------
(* Index file                                                              *)

FileMagic == "RECALLER"

\* A writer that still emits the version-1 header, which has no tracked roots.
SerializeIndexV1(s) ==
    [magic |-> FileMagic,
     version |-> 1,
     recordCount |-> Len(s.pathRecords),
     rootPathCount |-> 0,
     roots |-> << >>,
     bloom |-> <<s.bloomFilter>>,
     sketch |-> <<s.countMinSketch>>,
     records |-> s.pathRecords]

\* What SaveToFile writes: header, length-prefixed roots, bloom filter,
\* sketch, records.  The bloom and sketch sections are one-element sequences
\* (empty in a file cut short before them).
SerializeIndex(s) ==
    [magic |-> FileMagic,
     version |-> 2,
     recordCount |-> Len(s.pathRecords),
     rootPathCount |-> Len(s.rootPaths),
     roots |-> [i \in 1..Len(s.rootPaths) |->
                   [pathLen |-> Len(s.rootPaths[i]), pathBytes |-> s.rootPaths[i]]],
     bloom |-> <<s.bloomFilter>>,
     sketch |-> <<s.countMinSketch>>,
     records |-> s.pathRecords]

\* The parts of the index that the dirty flag watches over.
IndexData(s) ==
    [bloomFilter |-> s.bloomFilter, countMinSketch |-> s.countMinSketch,
     pathRecords |-> s.pathRecords, rootPaths |-> s.rootPaths]

SyncedAs(y, s) == IF y = << >> THEN y ELSE <<IndexData(s)>>

\* The outcomes a save of s can have: no write of a root or of a record
\* fails when there is none.
SaveOutcomes(s) ==
    AllSaveOutcomes \ ((IF Len(s.rootPaths) > 0 THEN {} ELSE {"roots"})
                          \cup (IF Len(s.pathRecords) > 0 THEN {} ELSE {"records"}))

\* The file f with the section named by cut, and all behind it, not written.
CutShort(f, cut) ==
    CASE cut = "header"  -> [magic |-> "", version |-> 0, recordCount |-> 0,
                             rootPathCount |-> 0, roots |-> << >>, bloom |-> << >>,
                             sketch |-> << >>, records |-> << >>]
      [] cut = "roots"   -> [f EXCEPT !.roots = << >>, !.bloom = << >>, !.sketch = << >>,
                                      !.records = << >>]
      [] cut = "bloom"   -> [f EXCEPT !.bloom = << >>, !.sketch = << >>, !.records = << >>]
      [] cut = "sketch"  -> [f EXCEPT !.sketch = << >>, !.records = << >>]
      [] cut = "records" -> [f EXCEPT !.records = << >>]

\* SaveToFile on the index file (<< >> when absent): the index, the file
\* and the error after the call.
SaveResult(s, file, outcome) ==
    IF outcome = "ok"
    THEN [s |-> [s EXCEPT !.isDirty = FALSE], file |-> <<SerializeIndex(s)>>, err |-> "none"]
    ELSE IF outcome = "create"
    THEN [s |-> s, file |-> file, err |-> "create"]
    ELSE [s |-> s, file |-> <<CutShort(SerializeIndex(s), outcome)>>, err |-> "write"]

SaveToFileWith(outcome) ==
    /\ outcome \in SaveOutcomes(IndexState)
    /\ indexFile' = SaveResult(IndexState, indexFile, outcome).file
    /\ isDirty' = SaveResult(IndexState, indexFile, outcome).s.isDirty
    /\ saved' = IF outcome = "ok"
                THEN <<[records |-> pathRecords, roots |-> rootPaths, adds |-> adds]>>
                ELSE saved
    /\ synced' = IF outcome = "ok" THEN SyncedAs(synced, IndexState) ELSE synced
    /\ UNCHANGED <<env, bloomFilter, countMinSketch, pathRecords, pathIndex, rootPaths,
                   maxIndexedFiles, live, adds, indexed, storeVars, helpVars, uiVars>>

\* A save that the file system lets succeed.
SaveToFile == SaveToFileWith("ok")

\* PersistIndex: nothing to do unless dirty.
PersistIndex ==
    /\ isDirty
    /\ SaveToFile

\* LoadFromFile on an existing file.  Each section is read in file order and
\* assigned as it is read; ok tells whether the end was reached.
LoadResult(s, f) ==
    IF f.magic # FileMagic \/ f.version \notin {1, 2}
    THEN [ok |-> FALSE, s |-> s]
    ELSE LET rootPathCount == IF f.version = 2 THEN f.rootPathCount ELSE 0
             nRoots == IF Len(f.roots) < rootPathCount THEN Len(f.roots) ELSE rootPathCount
             roots == [i \in 1..nRoots |-> SubSeq(f.roots[i].pathBytes, 1, f.roots[i].pathLen)]
             s1 == [s EXCEPT !.rootPaths = roots]
         IN IF nRoots < rootPathCount THEN [ok |-> FALSE, s |-> s1]
            ELSE IF f.bloom = << >>
            THEN [ok |-> FALSE,
                  s |-> [s1 EXCEPT !.bloomFilter = BloomNew(BloomFilterSize, BloomFilterHashes)]]
            ELSE IF f.sketch = << >>
            THEN [ok |-> FALSE,
                  s |-> [s1 EXCEPT !.bloomFilter = f.bloom[1],
                                   !.countMinSketch = NewCountMinSketch]]
            ELSE LET nRead == IF Len(f.records) < f.recordCount
                              THEN Len(f.records) ELSE f.recordCount
                     zero == [Path |-> ByteArray(Rep(0, MaxPathLength)), Timestamp |-> 0,
                              AccessCount |-> 0, Flags |-> 0]
                     records == [i \in 1..f.recordCount |->
                                    IF i <= nRead THEN f.records[i] ELSE zero]
                     readPaths == DecodedPaths(SubSeq(records, 1, nRead))
                     s2 == [s1 EXCEPT !.bloomFilter = f.bloom[1],
                                      !.countMinSketch = f.sketch[1],
                                      !.pathRecords = records,
                                      !.pathIndex = IndexOfPaths(readPaths)]
                 IN IF nRead < f.recordCount THEN [ok |-> FALSE, s |-> s2]
                    ELSE [ok |-> TRUE, s |-> [s2 EXCEPT !.isDirty = FALSE]]

LoadFromFile ==
    /\ indexFile # << >>
    /\ SetIndexState(LoadResult(IndexState, indexFile[1]).s)
    /\ live' = {}
    /\ adds' = IF saved = << >> THEN NoAdds(adds) ELSE saved[1].adds
    /\ synced' = IF LoadResult(IndexState, indexFile[1]).ok
                 THEN SyncedAs(synced, LoadResult(IndexState, indexFile[1]).s)
                 ELSE synced
    /\ UNCHANGED <<env, maxIndexedFiles, indexFile, saved, indexed, storeVars, helpVars, uiVars>>

\* PersistIndex: nothing is written unless the index is dirty.
PersistResult(s, file, outcome) ==
    IF ~s.isDirty THEN [s |-> s, file |-> file, err |-> "none"]
    ELSE SaveResult(s, file, outcome)

PersistIndexWith(outcome) ==
    /\ isDirty
    /\ SaveToFileWith(outcome)

-----------------------------------------------------------------------------
(* Refresh                                                                 *)

\* The elements of a sequence.
Range(seq) == {seq[i] : i \in 1..Len(seq)}

\* No walk made.
NoWalk(s) ==
    [s |-> s, count |-> 0, pruned |-> << >>, err |-> "none", added |-> {}, events |-> << >>]

\* The tracked roots that os.Stat succeeds on, in order.
ValidRootPaths(s, gone) == SelectSeq(s.rootPaths, LAMBDA r : r \notin gone)

\* ReindexExistingPaths that leaves the dirty flag alone when it drops roots.
ReindexResultClean(s, max, gone, walks, now) ==
    IF s.rootPaths = << >> \/ ValidRootPaths(s, gone) = << >>
    THEN NoWalk(s)
    ELSE IndexDirectoriesResult([s EXCEPT !.rootPaths = ValidRootPaths(s, gone)],
                                max, ValidRootPaths(s, gone), walks, now)

\* ReindexExistingPaths, gone being the roots os.Stat fails on: the walk
\* record of the indexing call it ends with, or one of no walk at all when
\* nothing is tracked or nothing tracked is left.
ReindexResult(s, max, gone, walks, now) ==
    IF s.rootPaths = << >> \/ ValidRootPaths(s, gone) = << >>
    THEN NoWalk(s)
    ELSE IndexDirectoriesResult([s EXCEPT !.rootPaths = ValidRootPaths(s, gone),
                                          !.isDirty = TRUE],
                                max, ValidRootPaths(s, gone), walks, now)

\* RefreshIndex: the index, the index file and the error it returns.
RefreshResult(s, file, max, gone, walks, now, outcome) ==
    IF s.rootPaths = << >>
    THEN [s |-> s, file |-> file, err |-> "untracked"]
    ELSE PersistResult(ReindexResult(s, max, gone, walks, now).s, file, outcome)

\* The refreshes a state can undergo: which roots have vanished, what the
\* walks of the others report, how the save ends.
Refreshes(s) ==
    UNION {{[gone |-> gone, walks |-> walks] :
               walks \in RootWalksOf(ValidRootPaths(s, gone))} :
              gone \in SUBSET Range(s.rootPaths)}

\* LoadOrCreateIndex of a new indexer: nothing is loaded when there is no
\* index file.
LoadOrCreateResult(file) ==
    IF file = << >> THEN [ok |-> TRUE, s |-> NewIndexState]
    ELSE LoadResult(NewIndexState, file[1])

\* The adds of a call stay within the bound on access counts.
WithinAccess(s, walks) ==
    /\ \A i \in 1..Len(s.pathRecords) : s.pathRecords[i].AccessCount < MaxAccess
    /\ \A r \in DOMAIN walks : \A i \in 1..Len(walks[r]) :
          SketchEstimate(s.countMinSketch, walks[r][i].path) < MaxAccess

\* What a command of a new process leaves behind: its indexer s, the index
\* file, and the walks w and the indexing call it made.
Ran(max, s, file, wrote, w, call) ==
    /\ SetIndexState(s)
    /\ maxIndexedFiles' = max
    /\ indexFile' = file
    /\ live' = w.added
    /\ adds' = NoAdds(adds)
    /\ indexed' = call
    /\ saved' = IF wrote
                THEN <<[records |-> s.pathRecords, roots |-> s.rootPaths,
                        adds |-> NoAdds(adds)]>>
                ELSE saved
    /\ UNCHANGED <<env, synced, storeVars, helpVars, uiVars>>

\* The fs index command: the index file is loaded if there is one, a failure
\* to load is logged; the directories are indexed, errors are logged; the
\* index is persisted.
fsIndexRan(max, w, roots, outcome) ==
    Ran(max, PersistResult(w.s, indexFile, outcome).s,
        PersistResult(w.s, indexFile, outcome).file,
        w.s.isDirty /\ outcome = "ok", w,
        <<[roots |-> roots, err |-> IF Len(roots) = 1 THEN w.err ELSE "none",
           limit |-> w.err = "limit"]>>)

fsIndex(max, roots, walks, now, outcome) ==
    /\ WithinAccess(LoadOrCreateResult(indexFile).s, walks)
    /\ fsIndexRan(max,
                  IF Len(roots) = 1
                  THEN IndexDirectoryResult(LoadOrCreateResult(indexFile).s, max,
                                            roots[1], walks[roots[1]], now)
                  ELSE IndexDirectoriesResult(LoadOrCreateResult(indexFile).s, max,
                                              roots, walks, now),
                  roots, outcome)

\* The fs refresh command: it ends when the index file cannot be loaded,
\* else the loaded index is refreshed.
fsRefreshRan(max, s, w, r, valid) ==
    Ran(max, r.s, r.file, w.s.isDirty /\ r.err = "none", w,
        IF s.rootPaths = << >> \/ valid = << >> THEN << >>
        ELSE <<[roots |-> valid, err |-> "none", limit |-> w.err = "limit"]>>)

fsRefresh(max, gone, walks, now, outcome) ==
    /\ WithinAccess(LoadOrCreateResult(indexFile).s, walks)
    /\ IF ~LoadOrCreateResult(indexFile).ok
       THEN Ran(max, LoadOrCreateResult(indexFile).s, indexFile, FALSE,
                NoWalk(LoadOrCreateResult(indexFile).s), << >>)
       ELSE fsRefreshRan(max, LoadOrCreateResult(indexFile).s,
                         ReindexResult(LoadOrCreateResult(indexFile).s, max, gone, walks, now),
                         RefreshResult(LoadOrCreateResult(indexFile).s, indexFile, max, gone,
                                       walks, now, outcome),
                         ValidRootPaths(LoadOrCreateResult(indexFile).s, gone))

\* The fs clean command from the loaded index to its exit: the indexer and
\* the index file it leaves, whether it wrote the file, and the number of
\* entries it reports as removed.  With --clear it only reports under
\* --dry-run, and otherwise clears and persists once the user has confirmed;
\* without --clear CleanupIndex has run on the loaded index (cleaned, stats)
\* and the result is persisted when it is no dry run and entries were removed.
fsCleanEndAlways(loaded, cleaned, stats, file, flags, confirmed, outcome) ==
    IF flags.clear
    THEN IF ~confirmed
         THEN [s |-> loaded, file |-> file, wrote |-> FALSE, removed |-> 0]
         ELSE [s |-> PersistResult([NewIndexState EXCEPT !.isDirty = TRUE], file, outcome).s,
               file |-> PersistResult([NewIndexState EXCEPT !.isDirty = TRUE], file,
                                      outcome).file,
               wrote |-> outcome = "ok", removed |-> 0]
    ELSE IF stats.RemovedEntries > 0
    THEN [s |-> PersistResult(cleaned, file, outcome).s,
          file |-> PersistResult(cleaned, file, outcome).file,
          wrote |-> outcome = "ok" /\ cleaned.isDirty,
          removed |-> stats.RemovedEntries]
    ELSE [s |-> cleaned, file |-> file, wrote |-> FALSE, removed |-> stats.RemovedEntries]

fsCleanEnd(loaded, cleaned, stats, file, flags, confirmed, outcome) ==
    IF flags.clear
    THEN IF flags.dryRun \/ ~confirmed
         THEN [s |-> loaded, file |-> file, wrote |-> FALSE, removed |-> 0]
         ELSE [s |-> PersistResult([NewIndexState EXCEPT !.isDirty = TRUE], file, outcome).s,
               file |-> PersistResult([NewIndexState EXCEPT !.isDirty = TRUE], file,
                                      outcome).file,
               wrote |-> outcome = "ok", removed |-> 0]
    ELSE IF ~flags.dryRun /\ stats.RemovedEntries > 0
    THEN [s |-> PersistResult(cleaned, file, outcome).s,
          file |-> PersistResult(cleaned, file, outcome).file,
          wrote |-> outcome = "ok" /\ cleaned.isDirty,
          removed |-> stats.RemovedEntries]
    ELSE [s |-> cleaned, file |-> file, wrote |-> FALSE, removed |-> stats.RemovedEntries]

\* The command ends at once when the index file cannot be loaded.
fsCleanLoaded(loaded, file, flags, confirmed, now, missing, outcome) ==
    IF ~loaded.ok
    THEN [s |-> loaded.s, file |-> file, wrote |-> FALSE, removed |-> 0]
    ELSE fsCleanEnd(loaded.s,
                    CleanupResult(loaded.s, flags.options.Path, flags.options.RemoveStale,
                                  flags.options.OlderThanDays, now, missing).s,
                    CleanupStats(loaded.s, flags.options, now, missing),
                    file, flags, confirmed, outcome)

fsCleanResult(file, flags, confirmed, now, missing, outcome) ==
    fsCleanLoaded(LoadOrCreateResult(file), file, flags, confirmed, now, missing, outcome)

\* The command lines of fs clean: the flags and the path argument, and with
\* them what the run meets: the answer to the prompt of --clear, the time,
\* the paths os.Stat fails on under --stale, and how a save ends.
CleanFlags(prefixes) ==
    [clear : BOOLEAN, dryRun : BOOLEAN,
     options : [Path : prefixes, RemoveStale : BOOLEAN, OlderThanDays : 0..1]]

Answers(flags) == IF flags.clear /\ ~flags.dryRun THEN BOOLEAN ELSE {FALSE}

StatFailures(flags, paths) ==
    IF ~flags.clear /\ flags.options.RemoveStale THEN SUBSET paths ELSE {{}}

Times(flags, nows) ==
    IF ~flags.clear /\ flags.options.OlderThanDays > 0 THEN nows ELSE {SetMin(nows)}

\* The paths of the records of an index.
RecordPaths(s) == {bytesToPath(s.pathRecords[i].Path) : i \in 1..Len(s.pathRecords)}

\* What an fs clean process leaves behind.  The history of the call keeps
\* the flags, the file as it was before and the count of removals.
CleanRan(max, flags, r) ==
    /\ SetIndexState(r.s)
    /\ maxIndexedFiles' = max
    /\ indexFile' = r.file
    /\ live' = {}
    /\ adds' = NoAdds(adds)
    /\ indexed' = <<[clean |-> flags, before |-> indexFile, removed |-> r.removed]>>
    /\ saved' = IF r.wrote
                THEN <<[records |-> r.s.pathRecords, roots |-> r.s.rootPaths,
                        adds |-> NoAdds(adds)]>>
                ELSE saved
    /\ UNCHANGED <<env, synced, storeVars, helpVars, uiVars>>

fsClean(max, flags, confirmed, now, missing, outcome) ==
    CleanRan(max, flags, fsCleanResult(indexFile, flags, confirmed, now, missing, outcome))

-----------------------------------------------------------------------------
(* Scores and the stable sort                                              *)

\* A score is the exact fraction num/den with den >= 0; den = 0 is +Inf (the
\* float64 result of dividing by a zero timeDelta + 1).
ScoreGreater(a, b) == a.num * b.den > b.num * a.den

Fraction(num, den) ==
    IF den < 0 THEN [num |-> -num, den |-> -den]
    ELSE IF den = 0 THEN [num |-> 1, den |-> 0]
    ELSE [num |-> num, den |-> den]

\* Position at which insertion sort places x in the sorted run: before the
\* first element x is strictly better than.  Places later equal elements first:
\* what an unstable sort may do.
UnstablePlace(run, x) ==
    LET worse == {i \in 1..Len(run) : ~ScoreGreater(run[i].Score, x.Score)}
    IN IF worse = {} THEN Len(run) + 1 ELSE SetMin(worse)

\* sort.SliceStable with less(i, j) = Score[i] > Score[j]: x goes behind every
\* element of the run it is not strictly better than.
StablePlace(run, x) ==
    LET worse == {i \in 1..Len(run) : ScoreGreater(x.Score, run[i].Score)}
    IN IF worse = {} THEN Len(run) + 1 ELSE SetMin(worse)

RECURSIVE SliceUnstableFrom(_, _, _)
SliceUnstableFrom(items, i, run) ==
    IF i > Len(items) THEN run
    ELSE LET at == UnstablePlace(run, items[i])
         IN SliceUnstableFrom(items, i + 1,
                SubSeq(run, 1, at - 1) \o <<items[i]>> \o SubSeq(run, at, Len(run)))

SliceUnstable(items) == SliceUnstableFrom(items, 1, << >>)

RECURSIVE SliceStableFrom(_, _, _)
SliceStableFrom(items, i, run) ==
    IF i > Len(items) THEN run
    ELSE LET at == StablePlace(run, items[i])
         IN SliceStableFrom(items, i + 1,
                SubSeq(run, 1, at - 1) \o <<items[i]>> \o SubSeq(run, at, Len(run)))

SliceStable(items) == SliceStableFrom(items, 1, << >>)

-----------------------------------------------------------------------------
(* Path search                                                             *)

\* missing: the paths os.Stat fails on at query time.  A failing stat only
\* leaves Size and LastModified unset (Stat FALSE); the one error is a path
\* that is not in the map.
getFileMetadata(s, path, missing) ==
    IF path \in DOMAIN s.pathIndex /\ s.pathIndex[path] < Len(s.pathRecords)
    THEN LET record == s.pathRecords[s.pathIndex[path] + 1]
         IN <<[Path |-> path,
               Timestamp |-> record.Timestamp,
               AccessCount |-> record.AccessCount,
               IsDirectory |-> (record.Flags % (2 * FlagIsDirectory)) >= FlagIsDirectory,
               Stat |-> path \notin missing]>>
    ELSE << >>

\* (0.7 * count + 0.3 / (timeDelta + 1)), times 0.8 for a directory, as a
\* fraction; timeDelta = now - timestamp in hours may be negative.
calculateFileScore(metadata, now) ==
    LET d == (now - metadata.Timestamp) + 1
        score == Fraction(7 * metadata.AccessCount * d + 3, 10 * d)
    IN IF metadata.IsDirectory
       THEN [num |-> 4 * score.num, den |-> 5 * score.den]
       ELSE score

RECURSIVE RankFiles(_, _, _, _, _)
RankFiles(s, candidates, i, now, missing) ==
    IF i > Len(candidates) THEN << >>
    ELSE LET metadata == getFileMetadata(s, candidates[i], missing)
             rest == RankFiles(s, candidates, i + 1, now, missing)
         IN IF metadata = << >> THEN rest
            ELSE <<[Path |-> candidates[i],
                    Score |-> calculateFileScore(metadata[1], now),
                    Metadata |-> metadata[1]]>> \o rest

SearchFiles(s, query, enableFuzzy, now, missing) ==
    LET queryLower == ToLower(query)
        Matches(path) ==
            IF enableFuzzy
            THEN \/ Contains(ToLower(Base(path)), queryLower)
                 \/ Contains(ToLower(path), queryLower)
            ELSE HasPrefix(ToLower(Base(path)), queryLower)
        hits == {i \in 1..Len(s.pathRecords) : Matches(bytesToPath(s.pathRecords[i].Path))}
        nth(k) == CHOOSE i \in hits : Cardinality({j \in hits : j < i}) = k - 1
        candidates == [k \in 1..Cardinality(hits) |-> bytesToPath(s.pathRecords[nth(k)].Path)]
        rankedFiles == SliceStable(RankFiles(s, candidates, 1, now, missing))
    IN IF Len(rankedFiles) > MaxSearchResults
       THEN SubSeq(rankedFiles, 1, MaxSearchResults)
       ELSE rankedFiles

-----------------------------------------------------------------------------
(* The command store: an AVL tree keyed by command                         *)
(* A pointer is Nil or the one-element sequence of the node it points to.  *)

Max(a, b) == IF a >= b THEN a ELSE b

getHeight(node) == IF node = Nil THEN 0 ELSE node[1].Height

\* updateHeight, on the node itself.
updateHeight(n) == [n EXCEPT !.Height = Max(getHeight(n.Left), getHeight(n.Right)) + 1]

getBalanceFactor(node) ==
    IF node = Nil THEN 0 ELSE getHeight(node[1].Left) - getHeight(node[1].Right)

rotateLeft(node) ==
    IF node = Nil THEN node
    ELSE IF node[1].Right = Nil THEN node
    ELSE LET pivot == node[1].Right[1]
             below == updateHeight([node[1] EXCEPT !.Right = pivot.Left])
         IN <<updateHeight([pivot EXCEPT !.Left = <<below>>])>>

rotateRight(node) ==
    IF node = Nil THEN node
    ELSE IF node[1].Left = Nil THEN node
    ELSE LET pivot == node[1].Left[1]
             below == updateHeight([node[1] EXCEPT !.Left = pivot.Right])
         IN <<updateHeight([pivot EXCEPT !.Right = <<below>>])>>

\* An insert that folds the new metadata into the stored one.
duplicateKeyMerged(n, value) ==
    [n EXCEPT !.Value.Frequency = @ + value.Frequency,
              !.Value.Timestamp =
                  IF @ = Nil THEN value.Timestamp
                  ELSE IF value.Timestamp = Nil THEN @
                  ELSE IF value.Timestamp[1] > @[1] THEN value.Timestamp ELSE @]

\* The branch of insertRecursive taken when key = node.Key: it is empty.
duplicateKey(n, value) == n

RECURSIVE insertRecursive(_, _, _)
insertRecursive(node, key, value) ==
    IF node = Nil
    THEN <<[Key |-> key, Value |-> value, Height |-> 1, Left |-> Nil, Right |-> Nil]>>
    ELSE LET n == node[1]
             n1 == IF StrLess(key, n.Key)
                   THEN [n EXCEPT !.Left = insertRecursive(n.Left, key, value)]
                   ELSE IF StrLess(n.Key, key)
                   THEN [n EXCEPT !.Right = insertRecursive(n.Right, key, value)]
                   ELSE duplicateKey(n, value)
             n2 == updateHeight(n1)
             balanceFactor == getBalanceFactor(<<n2>>)
         IN IF balanceFactor > 1
            THEN IF StrLess(key, n2.Left[1].Key)
                 THEN rotateRight(<<n2>>)
                 ELSE rotateRight(<<[n2 EXCEPT !.Left = rotateLeft(n2.Left)]>>)
            ELSE IF balanceFactor < -1
            THEN IF StrLess(n2.Right[1].Key, key)
                 THEN rotateLeft(<<n2>>)
                 ELSE rotateLeft(<<[n2 EXCEPT !.Right = rotateRight(n2.Right)]>>)
            ELSE <<n2>>

\* searchNode: the pointer to the node holding key, or Nil.
RECURSIVE searchNode(_, _)
searchNode(node, key) ==
    IF node = Nil THEN Nil
    ELSE IF StrLess(key, node[1].Key) THEN searchNode(node[1].Left, key)
    ELSE IF StrLess(node[1].Key, key) THEN searchNode(node[1].Right, key)
    ELSE node

\* The nodes of the tree in ascending key order (in-order traversal).
RECURSIVE InOrder(_)
InOrder(node) ==
    IF node = Nil THEN << >>
    ELSE InOrder(node[1].Left) \o <<node[1]>> \o InOrder(node[1].Right)

\* The stored records, in ascending key order.
Entry(n) == [Key |-> n.Key, Value |-> n.Value]
Entries(nodes) == [i \in 1..Len(nodes) |-> Entry(nodes[i])]
Records(node) == Entries(InOrder(node))

RECURSIVE rangeSearch(_, _, _)
rangeSearch(node, low, high) ==
    IF node = Nil THEN << >>
    ELSE LET n == node[1]
         IN (IF ~StrLess(n.Key, low) THEN rangeSearch(n.Left, low, high) ELSE << >>)
            \o (IF Len(n.Key) >= Len(low) /\ HasPrefix(n.Key, low) THEN <<n>> ELSE << >>)
            \o (IF StrLess(n.Key, high) THEN rangeSearch(n.Right, low, high) ELSE << >>)

HighSuffix == <<239, 191, 191>>     \* "￿" in UTF-8

SearchPrefix(root, prefix) == rangeSearch(root, prefix, prefix \o HighSuffix)

RECURSIVE fuzzySearch(_, _)
fuzzySearch(node, query) ==
    IF node = Nil THEN << >>
    ELSE LET n == node[1]
         IN fuzzySearch(n.Left, query)
            \o (IF Contains(ToLower(n.Key), ToLower(query)) THEN <<n>> ELSE << >>)
            \o fuzzySearch(n.Right, query)

SearchFuzzy(root, query) == fuzzySearch(root, query)

\* 0.6 * frequency + 0.4 * recency as a fraction; recency is 0 without a
\* usable timestamp, else 1 / (timeDelta + 1) with timeDelta clamped at 0.
calculateScore(metadata, now) ==
    IF metadata.Timestamp # Nil /\ metadata.Timestamp[1] # ZeroTime
    THEN LET timeDelta == Max(now - metadata.Timestamp[1], 0)
         IN Fraction(6 * metadata.Frequency * (timeDelta + 1) + 4, 10 * (timeDelta + 1))
    ELSE Fraction(6 * metadata.Frequency, 10)

SearchWithRanking(root, query, enableFuzzing, now) ==
    LET nodes == IF enableFuzzing THEN SearchFuzzy(root, query)
                 ELSE SearchPrefix(root, query)
        rankedCommands == [i \in 1..Len(nodes) |->
                              [Command |-> nodes[i].Key,
                               Score |-> calculateScore(nodes[i].Value, now),
                               Metadata |-> nodes[i].Value]]
    IN SliceStable(rankedCommands)

\* The store that holds the given records when they are inserted one after
\* the other from the first.
RECURSIVE InsertRecords(_, _, _)
InsertRecords(root, records, i) ==
    IF i > Len(records) THEN root
    ELSE InsertRecords(insertRecursive(root, records[i].Key, records[i].Value), records, i + 1)

\* findMin: the leftmost node below a node.
RECURSIVE leftmost(_)
leftmost(n) == IF n.Left = Nil THEN n ELSE leftmost(n.Left[1])

findMinNone(node) == node[1]

findMin(node) == leftmost(node[1])

rebalanceLeft(node) ==
    IF getBalanceFactor(node) > 1
    THEN IF getBalanceFactor(node[1].Left) >= 0
         THEN rotateRight(node)
         ELSE rotateRight(<<[node[1] EXCEPT !.Left = rotateLeft(node[1].Left)]>>)
    ELSE node

rebalance(node) ==
    IF getBalanceFactor(node) > 1
    THEN IF getBalanceFactor(node[1].Left) >= 0
         THEN rotateRight(node)
         ELSE rotateRight(<<[node[1] EXCEPT !.Left = rotateLeft(node[1].Left)]>>)
    ELSE IF getBalanceFactor(node) < -1
    THEN IF getBalanceFactor(node[1].Right) <= 0
         THEN rotateLeft(node)
         ELSE rotateLeft(<<[node[1] EXCEPT !.Right = rotateRight(node[1].Right)]>>)
    ELSE node

\* The node with the minimum of its right subtree moved into it.
Replaced(n, pivot, right) == [n EXCEPT !.Key = pivot.Key, !.Value = pivot.Value, !.Right = right]

RECURSIVE deleteRecursive(_, _)
deleteRecursive(node, key) ==
    IF node = Nil THEN Nil
    ELSE IF StrLess(key, node[1].Key)
    THEN rebalance(<<updateHeight([node[1] EXCEPT
                                      !.Left = deleteRecursive(node[1].Left, key)])>>)
    ELSE IF StrLess(node[1].Key, key)
    THEN rebalance(<<updateHeight([node[1] EXCEPT
                                      !.Right = deleteRecursive(node[1].Right, key)])>>)
    ELSE IF node[1].Left = Nil /\ node[1].Right = Nil THEN Nil
    ELSE IF node[1].Left = Nil THEN node[1].Right
    ELSE IF node[1].Right = Nil THEN node[1].Left
    ELSE rebalance(<<updateHeight(
             Replaced(node[1], findMin(node[1].Right),
                      deleteRecursive(node[1].Right, findMin(node[1].Right).Key)))>>)

\* The history of the store after an operation: the keys inserted and not
\* deleted since, the operation, its key and the tree it was applied to.
StoredAfter(y, keys, op, key, before) ==
    IF y = << >> THEN y
    ELSE <<[keys |-> keys, op |-> op, key |-> key, before |-> before]>>

Insert(key, value) ==
    /\ tree' = insertRecursive(tree, key, value)
    /\ stored' = StoredAfter(stored, IF stored = << >> THEN {} ELSE stored[1].keys \cup {key},
                             "Insert", key, tree)
    /\ UNCHANGED <<idxVars, history, ingested, helpVars, uiVars>>

Delete(key) ==
    /\ tree' = deleteRecursive(tree, key)
    /\ stored' = StoredAfter(stored, IF stored = << >> THEN {} ELSE stored[1].keys \ {key},
                             "Delete", key, tree)
    /\ UNCHANGED <<idxVars, history, ingested, helpVars, uiVars>>

-----------------------------------------------------------------------------
(* History ingestion                                                       *)

\* An entry is counted when it has a timestamp and a command text.  The
\* variant that only asks for the timestamp lets the empty command through.
CountedWithTimestamp(hist) == hist.Timestamp # Nil

Counted(hist) == hist.Timestamp # Nil /\ hist.Command # << >>

\* One pass of the loop over the history, from the last entry to the first:
\* count the entry and keep its timestamp if it is later than the one kept.
RECURSIVE CountHistory(_, _, _)
CountHistory(entries, i, maps) ==
    IF i < 1 THEN maps
    ELSE LET hist == entries[i]
             cmd == hist.Command
             seen == cmd \in DOMAIN maps.freqMap
             freq == [c \in DOMAIN maps.freqMap \cup {cmd} |->
                         IF c = cmd THEN (IF seen THEN maps.freqMap[c] ELSE 0) + 1
                         ELSE maps.freqMap[c]]
             newer == \/ cmd \notin DOMAIN maps.lastTimestamp
                      \/ hist.Timestamp[1] > maps.lastTimestamp[cmd][1]
             last == [c \in DOMAIN maps.lastTimestamp \cup {cmd} |->
                         IF c = cmd /\ newer THEN hist.Timestamp
                         ELSE maps.lastTimestamp[c]]
         IN IF Counted(hist)
            THEN CountHistory(entries, i - 1, [freqMap |-> freq, lastTimestamp |-> last])
            ELSE CountHistory(entries, i - 1, maps)

RECURSIVE InsertAll(_, _, _, _)
InsertAll(root, order, i, maps) ==
    IF i > Len(order) THEN root
    ELSE LET command == order[i]
             metadata == [Command |-> command,
                          Timestamp |-> maps.lastTimestamp[command],
                          Frequency |-> maps.freqMap[command]]
         IN InsertAll(insertRecursive(root, command, metadata), order, i + 1, maps)

\* The orders in which ranging over a Go map may visit its keys.
MapOrders(keys) ==
    {order \in [1..Cardinality(keys) -> keys] :
        \A i, j \in 1..Cardinality(keys) : i # j => order[i] # order[j]}

readHistoryAndPopulateTree ==
    /\ ingested < Env.ingests
    /\ LET maps == CountHistory(history, Len(history),
                                [freqMap |-> << >>, lastTimestamp |-> << >>])
       IN \E order \in MapOrders(DOMAIN maps.freqMap) :
              tree' = InsertAll(tree, order, 1, maps)
    /\ ingested' = ingested + 1
    /\ UNCHANGED <<idxVars, history, stored, helpVars, uiVars>>

-----------------------------------------------------------------------------
(* Help strategies and their dispatcher                                    *)
(* A text is << >> when empty and a one-element sequence otherwise; an     *)
(* error is Nil or <<[kind, name, cause]>>.                                *)

\* NewHelpStrategyManager: the strategies in registration order.
Registry ==
    <<"tldr", "git", "go", "kubectl", "cargo", "npm", "aws", "docker", "man", "generic">>

\* What a strategy's GetHelp may hand back: text, nothing, an error, or
\* output together with an error (a command that printed and then failed).
\* TLDR and man return no text with an error, the generic strategy returns
\* text or an error, a tool strategy returns what its command run returned.
OutcomeKinds(name) ==
    CASE name = "generic"          -> {"text", "err"}
      [] name \in {"tldr", "man"}  -> {"text", "empty", "err"}
      [] OTHER                     -> {"text", "empty", "err", "both"}

Outcome(name, kind) ==
    [help |-> IF kind \in {"text", "both"}
              THEN <<[kind |-> "help", from |-> <<name>>, err |-> Nil]>>
              ELSE << >>,
     err  |-> IF kind \in {"err", "both"}
              THEN <<[kind |-> "strategy", name |-> <<name>>, cause |-> Nil]>>
              ELSE Nil]

\* A world fixes, for one dispatch, the probes ("man -w", "which") and what
\* each strategy's GetHelp returns.
World(kinds, man, which) ==
    [man |-> man, which |-> which,
     result |-> [i \in 1..Len(Registry) |-> Outcome(Registry[i], kinds[i])]]

\* SupportsCommand of the i-th registered strategy.
SupportsCommand(i, baseCmd, world) ==
    CASE Registry[i] = "tldr"    -> TRUE
      [] Registry[i] = "man"     -> world.man
      [] Registry[i] = "generic" -> world.which
      [] OTHER                   -> baseCmd = Registry[i]

\* A result that only lacks an error counts as success.
SucceededWithoutError(outcome) == outcome.err = Nil

\* err == nil && help != ""
Succeeded(outcome) == outcome.err = Nil /\ outcome.help # << >>

\* An error is remembered only when there is one.
KeepLastErr(lastErr, err) == IF err = Nil THEN lastErr ELSE err

\* lastErr = err
NextLastErr(lastErr, err) == err

\* The loop over supportedStrategies: <<help, lastErr>>.
RECURSIVE TryStrategies(_, _, _, _)
TryStrategies(supported, k, world, lastErr) ==
    IF k > Len(supported) THEN [help |-> << >>, lastErr |-> lastErr]
    ELSE LET outcome == world.result[supported[k]]
         IN IF Succeeded(outcome) THEN [help |-> outcome.help, lastErr |-> lastErr]
            ELSE TryStrategies(supported, k + 1, world, NextLastErr(lastErr, outcome.err))

\* The registry positions after TLDR whose strategy supports the command, in
\* registration order.
SupportedStrategies(baseCmd, world) ==
    LET S == {i \in 1..Len(Registry) :
                 Registry[i] # "tldr" /\ SupportsCommand(i, baseCmd, world)}
        nth(k) == CHOOSE i \in S : Cardinality({j \in S : j < i}) = k - 1
    IN [k \in 1..Cardinality(S) |-> nth(k)]

\* HelpStrategyManager.GetHelp
GetHelp(cmdParts, world) ==
    IF Len(cmdParts) = 0
    THEN [help |-> << >>,
          err |-> <<[kind |-> "no command provided", name |-> << >>, cause |-> Nil]>>]
    ELSE LET tldr == world.result[1]
             supportedStrategies == SupportedStrategies(cmdParts[1], world)
             tried == TryStrategies(supportedStrategies, 1, world, Nil)
         IN IF Succeeded(tldr) THEN [help |-> tldr.help, err |-> Nil]
            ELSE IF tried.help # << >> THEN [help |-> tried.help, err |-> Nil]
            ELSE IF Len(supportedStrategies) = 0 /\ tried.lastErr = Nil
            THEN [help |-> << >>,
                  err |-> <<[kind |-> "no help strategy found", name |-> cmdParts,
                             cause |-> Nil]>>]
            ELSE [help |-> << >>,
                  err |-> <<[kind |-> "failed to get help", name |-> cmdParts,
                             cause |-> tried.lastErr]>>]

\* TldrStrategy.GetHelp: the URL of its GET request, as the pieces it is
\* formatted from.
baseUrl == "https://raw.githubusercontent.com/tldr-pages/tldr/refs/heads/main/pages/common"

TldrURL(cmdParts) ==
    IF Len(cmdParts) - 1 >= 1
    THEN <<baseUrl, "/", cmdParts[1], "-", cmdParts[2], ".md">>
    ELSE <<baseUrl, "/", cmdParts[1], ".md">>

\* The requests a call of HelpStrategyManager.GetHelp sends over the network:
\* none without a command, else the one of TLDR, which is always tried first.
Requests(cmdParts) ==
    IF Len(cmdParts) = 0 THEN {} ELSE {TldrURL(cmdParts)}

\* The worlds of a dispatch of cmdParts.  A strategy that is not asked (it
\* does not support the command, or there is no command) has a fixed outcome.
Worlds(cmdParts) ==
    LET base == IF cmdParts = << >> THEN "" ELSE cmdParts[1]
        KindsOf(name, asked) ==
            IF asked /\ cmdParts # << >> THEN OutcomeKinds(name) ELSE {"err"}
        Kinds(t, s, m, g) ==
            [i \in 1..Len(Registry) |->
                CASE Registry[i] = "tldr"    -> t
                  [] Registry[i] = "man"     -> m
                  [] Registry[i] = "generic" -> g
                  [] Registry[i] = base      -> s
                  [] OTHER                   -> "err"]
    IN UNION {{World(Kinds(t, s, m, g), probes[1], probes[2]) :
                  t \in KindsOf("tldr", TRUE), s \in KindsOf(base, TRUE),
                  m \in KindsOf("man", probes[1]), g \in KindsOf("generic", probes[2])}
              : probes \in (IF cmdParts = << >> THEN {<<FALSE, FALSE>>}
                            ELSE BOOLEAN \X BOOLEAN)}

-----------------------------------------------------------------------------
(* The help cache (go-cache with a default lifetime) and its filling       *)

helpCacheExpiration == 30      \* minutes

NewOptimizedHelpCache == << >>

\* cache.Add: an item that is present and not expired is left as it is.
CacheAdd(c, k, x, d, now) ==
    IF k \in DOMAIN c /\ ~(c[k].Expiration > 0 /\ now > c[k].Expiration) THEN c
    ELSE [key \in DOMAIN c \cup {k} |->
             IF key = k THEN [Object |-> x, Expiration |-> now + d] ELSE c[key]]

\* cache.Set(k, x, d) with d > 0 at instant now.
CacheSet(c, k, x, d, now) ==
    [key \in DOMAIN c \cup {k} |->
        IF key = k THEN [Object |-> x, Expiration |-> now + d] ELSE c[key]]

\* cache.Get(k) at instant now: <<found value>> or << >>.
CacheGet(c, k, now) ==
    IF k \notin DOMAIN c THEN << >>
    ELSE IF c[k].Expiration > 0 /\ now > c[k].Expiration THEN << >>
    ELSE <<c[k].Object>>

\* The janitor's DeleteExpired at instant now.
CacheDeleteExpired(c, now) ==
    [key \in {k \in DOMAIN c : ~(c[k].Expiration > 0 /\ now > c[k].Expiration)} |-> c[key]]

GetHelpPage(c, cmd, now) ==
    LET val == CacheGet(c, cmd, now)
    IN IF val = << >> THEN << >> ELSE val[1]

\* A command line is modelled by its shell words; one line does not parse.
Unparsable == <<"'">>

splitCommand(fullCmd) == IF fullCmd = Unparsable THEN << >> ELSE fullCmd

\* The surroundings of the help subsystem: the dispatcher asked directly in
\* every world; one command looked up, cached and expiring; a command line
\* that does not parse.
CmdLs1     == <<"ls">>
CmdGitSt   == <<"git", "status">>
TldrOnly   == World([i \in 1..Len(Registry) |-> IF i = 1 THEN "text" ELSE "err"], FALSE, FALSE)
NoSupport  == World([i \in 1..Len(Registry) |-> "err"], FALSE, FALSE)
ManFails   == World([i \in 1..Len(Registry) |-> "err"], TRUE, FALSE)
ManualText == <<[kind |-> "help", from |-> <<"manual">>, err |-> Nil]>>

HelpEnvironments ==
    [e \in {"dispatch", "cache", "parse", "lookups"} |->
        CASE e = "dispatch" ->
               [direct |-> {<< >>, CmdLs1, CmdGitSt}, cmdlines |-> {}, worlds |-> {},
                texts |-> {}, ticks |-> {}, maxClock |-> 0]
          [] e = "cache" ->
               [direct |-> {}, cmdlines |-> {CmdLs1},
                worlds |-> {TldrOnly, NoSupport, ManFails}, texts |-> {ManualText},
                ticks |-> {helpCacheExpiration \div 2}, maxClock |-> MaxClock]
          [] e = "parse" ->
               [direct |-> {}, cmdlines |-> {Unparsable}, worlds |-> {NoSupport},
                texts |-> {}, ticks |-> {helpCacheExpiration}, maxClock |-> MaxClock]
          [] e = "lookups" ->
               [direct |-> {}, cmdlines |-> {CmdLs1, CmdGitSt},
                worlds |-> {TldrOnly, NoSupport}, texts |-> {}, ticks |-> {}, maxClock |-> 0]]

HelpEnv == HelpEnvironments[env]


Placeholder(err) == <<[kind |-> "relax", from |-> << >>, err |-> err]>>

CacheHelpPage(cmd, helpTxt) ==
    /\ helpCache' = CacheSet(helpCache, cmd, helpTxt, helpCacheExpiration, clock)
    /\ lastWrite' = [key \in DOMAIN lastWrite \cup {cmd} |->
                        IF key = cmd THEN [text |-> helpTxt, at |-> clock]
                        ELSE lastWrite[key]]
    /\ UNCHANGED <<clock, helpResult, idxVars, storeVars, uiVars>>

\* GetOrfillCache(c, cmd) in a world: a stored page is returned as it is; on
\* a miss the dispatcher is asked and what it gave, or the placeholder made
\* of its error, is stored.  This is the call taken as one step.
GetOrfillCache(cmd, world) ==
    LET help == splitCommand(cmd)
        page == GetHelpPage(helpCache, cmd, clock)
        got  == GetHelp(help, world)
        helpTxt == IF got.err # Nil THEN Placeholder(got.err) ELSE got.help
    IN IF page = << >>
       THEN /\ helpCache' = CacheSet(helpCache, cmd, helpTxt, helpCacheExpiration, clock)
            /\ lastWrite' = [key \in DOMAIN lastWrite \cup {cmd} |->
                                IF key = cmd THEN [text |-> helpTxt, at |-> clock]
                                ELSE lastWrite[key]]
            /\ helpResult' = <<[cmdParts |-> help, world |-> world, out |-> got]>>
            /\ UNCHANGED <<clock, idxVars, storeVars, uiVars>>
       ELSE UNCHANGED vars

\* The goroutines that repaint the help widget: the debouncer goroutine
\* (updateSearchResults) and the main goroutine (handleNavigation and the
\* key cases of the event loop).
LookupThreads == {"debouncer", "main"}

\* What a fill of the cache does to it and to its histories.
Filled(cmd, helpTxt, out, world) ==
    /\ helpCache' = CacheSet(helpCache, cmd, helpTxt, helpCacheExpiration, clock)
    /\ lastWrite' = [key \in DOMAIN lastWrite \cup {cmd} |->
                        IF key = cmd THEN [text |-> helpTxt, at |-> clock]
                        ELSE lastWrite[key]]
    /\ helpResult' = <<[cmdParts |-> splitCommand(cmd), world |-> world, out |-> out]>>

\* GetOrfillCache in a goroutine up to its test of the page: the cache is
\* read under its own lock, which is released before the test.
LookupStart(thread, cmd) ==
    /\ lookups # << >>
    /\ lookups.pending[thread] = << >>
    /\ lookups' = [lookups EXCEPT
          !.pending[thread] = IF GetHelpPage(helpCache, cmd, clock) = << >>
                              THEN <<cmd>> ELSE << >>,
          !.served[cmd] = IF GetHelpPage(helpCache, cmd, clock) = << >> THEN @ ELSE TRUE]
    /\ UNCHANGED <<idxVars, storeVars, helpVars, session, debounce, runner, overstrike>>

\* The rest of GetOrfillCache after a miss: getCommandHelp asks the
\* dispatcher and CacheHelpPage stores what it gave.
LookupFill(thread, world) ==
    /\ lookups # << >>
    /\ lookups.pending[thread] # << >>
    /\ Filled(lookups.pending[thread][1],
              IF GetHelp(splitCommand(lookups.pending[thread][1]), world).err # Nil
              THEN Placeholder(GetHelp(splitCommand(lookups.pending[thread][1]), world).err)
              ELSE GetHelp(splitCommand(lookups.pending[thread][1]), world).help,
              GetHelp(splitCommand(lookups.pending[thread][1]), world), world)
    /\ lookups' = [lookups EXCEPT
          !.pending[thread] = << >>,
          !.dispatched[lookups.pending[thread][1]] = @ + 1]
    /\ UNCHANGED <<clock, idxVars, storeVars, session, debounce, runner, overstrike>>

\* The dispatcher asked directly.
AskHelp(cmdParts, world) ==
    /\ helpResult' = <<[cmdParts |-> cmdParts, world |-> world,
                        out |-> GetHelp(cmdParts, world)]>>
    /\ UNCHANGED <<helpCache, clock, lastWrite, idxVars, storeVars, uiVars>>

\* The janitor goroutine of the cache.
DeleteExpired ==
    /\ helpCache' = CacheDeleteExpired(helpCache, clock)
    /\ UNCHANGED <<clock, helpResult, lastWrite, idxVars, storeVars, uiVars>>

\* Time passes.
Tick(minutes) ==
    /\ clock + minutes <= HelpEnv.maxClock
    /\ clock' = clock + minutes
    /\ UNCHANGED <<helpCache, helpResult, lastWrite, idxVars, storeVars, uiVars>>

-----------------------------------------------------------------------------
(* The file search UI: SearchFiles in the debouncer goroutine beside the   *)
(* AddPath of the main goroutine                                           *)

\* No record of the index has reached the bound on access counts.
AccessBounded == \A i \in 1..Len(pathRecords) : pathRecords[i].AccessCount < MaxAccess

\* runFilesystemSearch starts: no AddPath and no search under way, nothing
\* listed.
runFilesystemSearch ==
    /\ session = << >>
    /\ pathRecords # << >>
    /\ session' = [adding |-> << >>, searching |-> << >>, observed |-> << >>, done |-> FALSE,
                   persist |-> "none", exited |-> FALSE]
    /\ UNCHANGED <<idxVars, storeVars, helpVars, debounce, runner, overstrike, lookups>>

\* The records as the last completed AddPath left them.
Committed == IF session.adding = << >> THEN pathRecords ELSE session.adding[1].before

\* A tick of the debouncer: updateFileResults calls SearchFiles, which
\* evaluates the range expression fi.pathRecords.
SearchStart(query, enableFuzzy, now) ==
    /\ session # << >>
    /\ ~session.exited
    /\ session.searching = << >>
    /\ query # << >>
    /\ session' = [session EXCEPT !.searching =
                      <<[query |-> query, enableFuzzy |-> enableFuzzy, now |-> now,
                         n |-> Len(pathRecords), i |-> 1, candidates |-> << >>,
                         k |-> 1, rankedFiles |-> << >>, snaps |-> {Committed}]>>]
    /\ UNCHANGED <<idxVars, storeVars, helpVars, debounce, runner, overstrike, lookups>>

\* The test of the first loop of SearchFiles.
MatchesQuery(path, query, enableFuzzy) ==
    IF enableFuzzy
    THEN \/ Contains(ToLower(Base(path)), ToLower(query))
         \/ Contains(ToLower(path), ToLower(query))
    ELSE HasPrefix(ToLower(Base(path)), ToLower(query))

\* One iteration of the first loop of SearchFiles: a record is read.
SearchScan ==
    /\ session # << >>
    /\ ~session.exited
    /\ session.searching # << >>
    /\ session.searching[1].i <= session.searching[1].n
    /\ session' = [session EXCEPT
          !.searching[1].i = @ + 1,
          !.searching[1].candidates =
              IF MatchesQuery(bytesToPath(pathRecords[session.searching[1].i].Path),
                              session.searching[1].query, session.searching[1].enableFuzzy)
              THEN Append(@, bytesToPath(pathRecords[session.searching[1].i].Path))
              ELSE @]
    /\ UNCHANGED <<idxVars, storeVars, helpVars, debounce, runner, overstrike, lookups>>

\* What the second loop of SearchFiles appends for a candidate.
Ranked(path, metadata, now) ==
    IF metadata = << >> THEN << >>
    ELSE <<[Path |-> path, Score |-> calculateFileScore(metadata[1], now),
            Metadata |-> metadata[1]]>>

\* One iteration of the second loop: getFileMetadata reads the map and
\* copies the record.
SearchRank ==
    /\ session # << >>
    /\ ~session.exited
    /\ session.searching # << >>
    /\ session.searching[1].i > session.searching[1].n
    /\ session.searching[1].k <= Len(session.searching[1].candidates)
    /\ session' = [session EXCEPT
          !.searching[1].k = @ + 1,
          !.searching[1].rankedFiles =
              @ \o Ranked(session.searching[1].candidates[session.searching[1].k],
                          getFileMetadata(IndexState,
                              session.searching[1].candidates[session.searching[1].k], {}),
                          session.searching[1].now)]
    /\ UNCHANGED <<idxVars, storeVars, helpVars, debounce, runner, overstrike, lookups>>

\* The end of SearchFiles: the stable sort and the cut at fifty results.
Sorted(rankedFiles) ==
    IF Len(SliceStable(rankedFiles)) > MaxSearchResults
    THEN SubSeq(SliceStable(rankedFiles), 1, MaxSearchResults)
    ELSE SliceStable(rankedFiles)

\* SearchFiles sorts and returns; updateFileResults lists the result.
SearchEnd ==
    /\ session # << >>
    /\ ~session.exited
    /\ session.searching # << >>
    /\ session.searching[1].i > session.searching[1].n
    /\ session.searching[1].k > Len(session.searching[1].candidates)
    /\ session' = [session EXCEPT
          !.searching = << >>,
          !.observed = <<[results |-> Sorted(session.searching[1].rankedFiles),
                          snaps |-> session.searching[1].snaps]>>]
    /\ UNCHANGED <<idxVars, storeVars, helpVars, debounce, runner, overstrike, lookups>>

\* <Enter> on a listed file: the main goroutine calls fsIndexer.AddPath.
Enter(selectedIndex, timestamp) ==
    /\ session # << >>
    /\ ~session.done
    /\ session.adding = << >>
    /\ session.observed # << >>
    /\ selectedIndex \in 1..Len(session.observed[1].results)
    /\ SketchEstimate(countMinSketch, session.observed[1].results[selectedIndex].Path)
          < MaxAccess
    /\ AccessBounded
    /\ session' = [session EXCEPT !.adding =
                      <<[path |-> session.observed[1].results[selectedIndex].Path,
                         timestamp |-> timestamp, pc |-> "begin", existed |-> FALSE,
                         before |-> pathRecords]>>]
    /\ UNCHANGED <<idxVars, storeVars, helpVars, debounce, runner, overstrike, lookups>>

\* AddPath up to fi.isDirty = true.
AddBegin ==
    /\ session # << >>
    /\ session.adding # << >>
    /\ session.adding[1].pc = "begin"
    /\ bloomFilter' = BloomAddString(bloomFilter, session.adding[1].path)
    /\ countMinSketch' = SketchAdd(countMinSketch, session.adding[1].path, 1)
    /\ isDirty' = TRUE
    /\ session' = [session EXCEPT
          !.adding[1].existed = BloomTestString(bloomFilter, session.adding[1].path),
          !.adding[1].pc = "record"]
    /\ UNCHANGED <<env, pathRecords, pathIndex, rootPaths, maxIndexedFiles, indexFile, live,
                   saved, adds, indexed, synced, storeVars, helpVars, debounce, runner,
                   overstrike, lookups>>

\* The session after the AddPath call has returned with the records as given.
Added(records) ==
    [session EXCEPT !.adding = << >>,
                    !.done = TRUE,
                    !.searching = IF @ = << >> THEN @
                                  ELSE <<[@[1] EXCEPT !.snaps = @ \cup {records}]>>]

\* AddPath on a path the map holds: the record's timestamp is written; on
\* any other path the rest of AddPath.
AddRecord ==
    /\ session # << >>
    /\ session.adding # << >>
    /\ session.adding[1].pc = "record"
    /\ IF session.adding[1].existed /\ session.adding[1].path \in DOMAIN pathIndex
       THEN /\ pathRecords' =
                  [pathRecords EXCEPT ![pathIndex[session.adding[1].path] + 1].Timestamp =
                                          session.adding[1].timestamp]
            /\ session' = [session EXCEPT !.adding[1].pc = "count"]
            /\ UNCHANGED pathIndex
       ELSE IF Len(pathRecords) >= maxIndexedFiles
       THEN /\ session' = Added(pathRecords)
            /\ UNCHANGED <<pathRecords, pathIndex>>
       ELSE /\ pathIndex' = [p \in (DOMAIN pathIndex) \cup {session.adding[1].path} |->
                                IF p = session.adding[1].path THEN Len(pathRecords)
                                ELSE pathIndex[p]]
            /\ pathRecords' =
                  Append(pathRecords,
                         [Path |-> pathToBytes(session.adding[1].path),
                          Timestamp |-> session.adding[1].timestamp,
                          AccessCount |-> SketchEstimate(countMinSketch, session.adding[1].path),
                          Flags |-> FlagsOf(session.adding[1].path, "file")])
            /\ session' = Added(pathRecords')
    /\ UNCHANGED <<env, bloomFilter, countMinSketch, rootPaths, isDirty, maxIndexedFiles,
                   indexFile, live, saved, adds, indexed, synced, storeVars, helpVars,
                   debounce, runner, overstrike, lookups>>

\* fi.pathRecords[idx].AccessCount++, and AddPath returns.
AddCount ==
    /\ session # << >>
    /\ session.adding # << >>
    /\ session.adding[1].pc = "count"
    /\ pathRecords' =
          [pathRecords EXCEPT ![pathIndex[session.adding[1].path] + 1].AccessCount = @ + 1]
    /\ session' = Added(pathRecords')
    /\ UNCHANGED <<env, bloomFilter, countMinSketch, pathIndex, rootPaths, isDirty,
                   maxIndexedFiles, indexFile, live, saved, adds, indexed, synced, storeVars,
                   helpVars, debounce, runner, overstrike, lookups>>

\* After AddPath and openFileWithDefaultApp the <Enter> case starts a
\* goroutine that persists the index.
PersistSpawn ==
    /\ session # << >>
    /\ session.done
    /\ session.persist = "none"
    /\ session' = [session EXCEPT !.persist = "spawned"]
    /\ UNCHANGED <<idxVars, storeVars, helpVars, debounce, runner, overstrike, lookups>>

\* The goroutine calls PersistIndex: nothing to do unless dirty, else
\* SaveToFile creates the file, which empties it.
PersistCreate ==
    /\ session # << >>
    /\ ~session.exited
    /\ session.persist = "spawned"
    /\ indexFile' = IF isDirty THEN SaveResult(IndexState, indexFile, "header").file
                    ELSE indexFile
    /\ session' = [session EXCEPT !.persist = IF isDirty THEN "created" ELSE "returned"]
    /\ UNCHANGED <<env, bloomFilter, countMinSketch, pathRecords, pathIndex, rootPaths,
                   isDirty, maxIndexedFiles, live, saved, adds, indexed, synced, storeVars,
                   helpVars, debounce, runner, overstrike, lookups>>

\* SaveToFile writes the sections, clears the dirty flag and returns.
PersistWrite ==
    /\ session # << >>
    /\ ~session.exited
    /\ session.persist = "created"
    /\ indexFile' = SaveResult(IndexState, indexFile, "ok").file
    /\ isDirty' = SaveResult(IndexState, indexFile, "ok").s.isDirty
    /\ session' = [session EXCEPT !.persist = "returned"]
    /\ UNCHANGED <<env, bloomFilter, countMinSketch, pathRecords, pathIndex, rootPaths,
                   maxIndexedFiles, live, saved, adds, indexed, synced, storeVars,
                   helpVars, debounce, runner, overstrike, lookups>>

\* ui.Close() and return: runFilesystemSearch is the last statement of the
\* command, so the process exits and its goroutines end where they are.
SessionExit ==
    /\ session # << >>
    /\ ~session.exited
    /\ session.persist # "none"
    /\ session' = [session EXCEPT !.exited = TRUE]
    /\ UNCHANGED <<idxVars, storeVars, helpVars, debounce, runner, overstrike, lookups>>

\* The same where the exit waits for the goroutine to return.
SessionExitJoined ==
    /\ session # << >>
    /\ ~session.exited
    /\ session.persist = "returned"
    /\ session' = [session EXCEPT !.exited = TRUE]
    /\ UNCHANGED <<idxVars, storeVars, helpVars, debounce, runner, overstrike, lookups>>

-----------------------------------------------------------------------------
(* The search debouncer of the history UI and of the file search UI        *)

\* Milliseconds.
debounceDelay == 100

fsDebounceDelay == 150

\* The step of the clock in milliseconds, the last instant of a session and
\* the number of keystrokes in one.
Quantum == 50

MaxTime == 300

MaxKeys == 3

Delay(ui) == IF ui = "history" THEN debounceDelay ELSE fsDebounceDelay

\* run and runFilesystemSearch up to their event loops: time.NewTimer(0)
\* stopped at once, an empty input buffer, the debouncer goroutine in its
\* select, the initial update returning on inputBuffer == lastSearchQuery.
\* typed lists the input buffers the keystrokes have made with their
\* instants, executed the searches run.
NewSearchState(ui) ==
    [ui |-> ui, inputBuffer |-> << >>, lastSearchQuery |-> << >>, clock |-> 0,
     searchDebouncer |-> << >>, key |-> "idle", debouncer |-> "select",
     keys |-> 0, typed |-> <<[query |-> << >>, at |-> 0]>>, executed |-> {}]

Tock ==
    /\ debounce # << >>
    /\ debounce.clock + Quantum <= MaxTime
    /\ debounce' = [debounce EXCEPT !.clock = @ + Quantum]
    /\ UNCHANGED <<idxVars, storeVars, helpVars, session, runner, overstrike, lookups>>

\* The first statement of a key's case in the event loop: a character or
\* <Space> is appended to the input buffer.
KeyChar(c) ==
    /\ debounce # << >>
    /\ debounce.key = "idle"
    /\ debounce.keys < MaxKeys
    /\ debounce' = [debounce EXCEPT
          !.inputBuffer = Append(@, c),
          !.keys = @ + 1,
          !.key = "reset",
          !.typed = Append(@, [query |-> Append(debounce.inputBuffer, c),
                               at |-> debounce.clock])]
    /\ UNCHANGED <<idxVars, storeVars, helpVars, session, runner, overstrike, lookups>>

\* <Backspace>: the history UI resets the timer whether or not the buffer
\* was empty, the file search UI only when it was not.
KeyBackspace ==
    /\ debounce # << >>
    /\ debounce.key = "idle"
    /\ debounce.keys < MaxKeys
    /\ debounce' =
          IF debounce.inputBuffer # << >>
          THEN [debounce EXCEPT
                  !.inputBuffer = SubSeq(@, 1, Len(@) - 1),
                  !.keys = @ + 1,
                  !.key = "reset",
                  !.typed = Append(@, [query |-> SubSeq(debounce.inputBuffer, 1,
                                                        Len(debounce.inputBuffer) - 1),
                                       at |-> debounce.clock])]
          ELSE [debounce EXCEPT
                  !.keys = @ + 1,
                  !.key = IF debounce.ui = "history" THEN "reset" ELSE "idle"]
    /\ UNCHANGED <<idxVars, storeVars, helpVars, session, runner, overstrike, lookups>>

\* The second statement of the case: searchDebouncer.Reset(delay).
KeyReset ==
    /\ debounce # << >>
    /\ debounce.key = "reset"
    /\ debounce' = [debounce EXCEPT
          !.searchDebouncer = <<debounce.clock + Delay(debounce.ui)>>,
          !.key = "idle"]
    /\ UNCHANGED <<idxVars, storeVars, helpVars, session, runner, overstrike, lookups>>

\* The debouncer goroutine receives from searchDebouncer.C: the timer has
\* expired and has been neither stopped nor reset since.
Expire ==
    /\ debounce # << >>
    /\ debounce.debouncer = "select"
    /\ debounce.searchDebouncer # << >>
    /\ debounce.clock >= debounce.searchDebouncer[1]
    /\ debounce' = [debounce EXCEPT !.searchDebouncer = << >>, !.debouncer = "update"]
    /\ UNCHANGED <<idxVars, storeVars, helpVars, session, runner, overstrike, lookups>>

\* updateSearchResults and updateFileResults in the debouncer goroutine:
\* nothing when the buffer is the last query, else a search of the buffer.
Update ==
    /\ debounce # << >>
    /\ debounce.debouncer = "update"
    /\ debounce' =
          IF debounce.inputBuffer = debounce.lastSearchQuery
          THEN [debounce EXCEPT !.debouncer = "select"]
          ELSE [debounce EXCEPT
                  !.debouncer = "select",
                  !.lastSearchQuery = debounce.inputBuffer,
                  !.executed = @ \cup {[query |-> debounce.inputBuffer,
                                        version |-> Len(debounce.typed),
                                        at |-> debounce.clock]}]
    /\ UNCHANGED <<idxVars, storeVars, helpVars, session, runner, overstrike, lookups>>

\* The history UI with its lists: the rows of the suggestion list, the
\* selected index, the matches of a search whose rows are being rewritten,
\* and the out-of-range read that has ended the process, if any.
NewHistoryUi ==
    [ui |-> "history", inputBuffer |-> << >>, lastSearchQuery |-> << >>, clock |-> 0,
     searchDebouncer |-> << >>, key |-> "idle", debouncer |-> "select",
     keys |-> 0, typed |-> <<[query |-> << >>, at |-> 0]>>, executed |-> {},
     rows |-> << >>, selectedIndex |-> 0, matches |-> << >>, fault |-> << >>]

\* The process has not panicked.
Running == debounce # << >> /\ debounce.fault = << >>

\* updateSearchResults up to suggestionList.Rows = suggestionList.Rows[:0]:
\* nothing when the buffer is the last query, else the buffer is searched
\* and the list is emptied.
UpdateSearch ==
    /\ Running
    /\ debounce.debouncer = "update"
    /\ debounce' =
          IF debounce.inputBuffer = debounce.lastSearchQuery
          THEN [debounce EXCEPT !.debouncer = "select"]
          ELSE [debounce EXCEPT
                  !.debouncer = "append",
                  !.lastSearchQuery = debounce.inputBuffer,
                  !.executed = @ \cup {[query |-> debounce.inputBuffer,
                                        version |-> Len(debounce.typed),
                                        at |-> debounce.clock]},
                  !.matches = SearchWithRanking(tree, debounce.inputBuffer, FALSE, 0),
                  !.rows = << >>]
    /\ UNCHANGED <<idxVars, storeVars, helpVars, session, runner, overstrike, lookups>>

\* The rest of updateSearchResults: the commands of the matches are
\* appended and a selected index beyond the list goes back to 0.
UpdateRows ==
    /\ Running
    /\ debounce.debouncer = "append"
    /\ debounce' = [debounce EXCEPT
          !.debouncer = "select",
          !.rows = [i \in 1..Len(debounce.matches) |-> debounce.matches[i].Command],
          !.matches = << >>,
          !.selectedIndex = IF @ >= Len(debounce.matches) \/ @ < 0 THEN 0 ELSE @]
    /\ UNCHANGED <<idxVars, storeVars, helpVars, session, runner, overstrike, lookups>>

\* <C-r>: the input buffer is emptied; the timer is left as it is.
KeyCtrlR ==
    /\ Running
    /\ debounce.key = "idle"
    /\ debounce.keys < MaxKeys
    /\ debounce' = [debounce EXCEPT
          !.inputBuffer = << >>,
          !.keys = @ + 1,
          !.typed = Append(@, [query |-> << >>, at |-> debounce.clock])]
    /\ UNCHANGED <<idxVars, storeVars, helpVars, session, runner, overstrike, lookups>>

\* <C-u>: the input buffer becomes suggestionList.Rows[state.selectedIndex],
\* read without a test of the length; the timer is left as it is.
KeyCtrlU ==
    /\ Running
    /\ debounce.key = "idle"
    /\ debounce.keys < MaxKeys
    /\ debounce' =
          IF debounce.selectedIndex < Len(debounce.rows)
          THEN [debounce EXCEPT
                  !.inputBuffer = debounce.rows[debounce.selectedIndex + 1],
                  !.keys = @ + 1,
                  !.typed = Append(@, [query |-> debounce.rows[debounce.selectedIndex + 1],
                                       at |-> debounce.clock])]
          ELSE [debounce EXCEPT
                  !.keys = @ + 1,
                  !.fault = <<[key |-> "<C-u>", index |-> debounce.selectedIndex,
                               len |-> Len(debounce.rows)]>>]
    /\ UNCHANGED <<idxVars, storeVars, helpVars, session, runner, overstrike, lookups>>

\* <Down>: handleNavigation("down") moves the selection while it is above
\* the last row and reads the row it has moved to.
KeyDown ==
    /\ Running
    /\ debounce.key = "idle"
    /\ debounce.keys < MaxKeys
    /\ debounce' =
          IF debounce.selectedIndex < Len(debounce.rows) - 1
          THEN [debounce EXCEPT !.selectedIndex = @ + 1, !.keys = @ + 1]
          ELSE [debounce EXCEPT !.keys = @ + 1]
    /\ UNCHANGED <<idxVars, storeVars, helpVars, session, runner, overstrike, lookups>>

-----------------------------------------------------------------------------
(* CommandRunner: a child process under a timeout and an output limit      *)

\* The limit of the writer in bytes, the longest write of a process and the
\* longest read of the copying goroutine, and the most bytes the processes
\* write in one run.
MaxOutputSize == 3

MaxChunk == 2

MaxStream == 5

\* "\n[OUTPUT TRUNCATED - Size limit exceeded]"
TruncatedFooter ==
    <<10, 91, 79, 85, 84, 80, 85, 84, 32, 84, 82, 85, 78, 67, 65, 84, 69, 68, 32, 45, 32,
      83, 105, 122, 101, 32, 108, 105, 109, 105, 116, 32, 101, 120, 99, 101, 101, 100,
      101, 100, 93>>

\* The bytes "o" and "e" that the processes write to stdout and stderr.
OutputBytes == {111, 101}

Chunks == UNION {[1..n -> OutputBytes] : n \in 1..MaxChunk}

WriteEager(lw, p) ==
    IF lw.written >= lw.limit
    THEN [lw EXCEPT !.truncated = TRUE]
    ELSE IF Len(p) >= lw.limit - lw.written
    THEN [lw EXCEPT !.truncated = TRUE,
                    !.w = @ \o SubSeq(p, 1, lw.limit - lw.written),
                    !.written = @ + (lw.limit - lw.written)]
    ELSE [lw EXCEPT !.w = @ \o p, !.written = @ + Len(p)]

\* LimitedWriter.Write on a bytes.Buffer, whose Write takes all it is given.
Write(lw, p) ==
    IF lw.written >= lw.limit
    THEN [lw EXCEPT !.truncated = TRUE]
    ELSE IF Len(p) > lw.limit - lw.written
    THEN [lw EXCEPT !.truncated = TRUE,
                    !.w = @ \o SubSeq(p, 1, lw.limit - lw.written),
                    !.written = @ + (lw.limit - lw.written)]
    ELSE [lw EXCEPT !.w = @ \o p, !.written = @ + Len(p)]

\* RunWithTimeout up to cmd.Run having started the child: the context is
\* live, stdout and stderr of the child are the write end of one pipe (both
\* are the same writer), and one goroutine copies the pipe into the limited
\* writer. stream lists the bytes written into the pipe, copied those handed
\* to the writer.
Started ==
    [ctx |-> "live", child |-> "running", descendant |-> "none", pipe |-> << >>,
     limitedWriter |-> [w |-> << >>, limit |-> MaxOutputSize, written |-> 0,
                        truncated |-> FALSE],
     stream |-> << >>, copied |-> << >>, returned |-> << >>]

\* The child starts a process of its own that inherits stdout and stderr.
Fork ==
    /\ runner # << >>
    /\ runner.child = "running"
    /\ runner.descendant = "none"
    /\ runner' = [runner EXCEPT !.descendant = "running"]
    /\ UNCHANGED <<idxVars, storeVars, helpVars, session, debounce, overstrike, lookups>>

\* The child or its descendant writes to stdout or stderr.
ProcessWrite(p) ==
    /\ runner # << >>
    /\ runner.child = "running" \/ runner.descendant = "running"
    /\ Len(runner.stream) + Len(p) <= MaxStream
    /\ runner' = [runner EXCEPT !.pipe = @ \o p, !.stream = @ \o p]
    /\ UNCHANGED <<idxVars, storeVars, helpVars, session, debounce, overstrike, lookups>>

\* The copying goroutine reads n bytes from the pipe and writes them to the
\* limited writer.
Copy(n) ==
    /\ runner # << >>
    /\ runner.returned = << >>
    /\ n \in 1..Len(runner.pipe)
    /\ runner' = [runner EXCEPT
          !.pipe = SubSeq(@, n + 1, Len(@)),
          !.copied = @ \o SubSeq(runner.pipe, 1, n),
          !.limitedWriter = Write(@, SubSeq(runner.pipe, 1, n))]
    /\ UNCHANGED <<idxVars, storeVars, helpVars, session, debounce, overstrike, lookups>>

ChildExit(status) ==
    /\ runner # << >>
    /\ runner.child = "running"
    /\ runner' = [runner EXCEPT !.child = status]
    /\ UNCHANGED <<idxVars, storeVars, helpVars, session, debounce, overstrike, lookups>>

DescendantExit ==
    /\ runner # << >>
    /\ runner.descendant = "running"
    /\ runner' = [runner EXCEPT !.descendant = "exited"]
    /\ UNCHANGED <<idxVars, storeVars, helpVars, session, debounce, overstrike, lookups>>

\* The timeout of context.WithTimeout expires.
Deadline ==
    /\ runner # << >>
    /\ runner.ctx = "live"
    /\ runner.returned = << >>
    /\ runner' = [runner EXCEPT !.ctx = "done"]
    /\ UNCHANGED <<idxVars, storeVars, helpVars, session, debounce, overstrike, lookups>>

\* exec.CommandContext on a done context: the child is killed, and nothing
\* else is.
Kill ==
    /\ runner # << >>
    /\ runner.ctx = "done"
    /\ runner.child = "running"
    /\ runner' = [runner EXCEPT !.child = "killed"]
    /\ UNCHANGED <<idxVars, storeVars, helpVars, session, debounce, overstrike, lookups>>

\* What RunWithTimeout returns once cmd.Run has.
RunResult(lw, child) ==
    [result |-> IF lw.truncated THEN lw.w \o TruncatedFooter ELSE lw.w,
     err |-> IF child = "exited" THEN "nil" ELSE child]

\* cmd.Run returns: the child has been waited for and the copying goroutine
\* has read end of file, which the pipe gives once it is empty and no
\* process holds its write end.
Return ==
    /\ runner # << >>
    /\ runner.returned = << >>
    /\ runner.child # "running"
    /\ runner.descendant # "running"
    /\ runner.pipe = << >>
    /\ runner' = [runner EXCEPT
          !.returned = <<RunResult(runner.limitedWriter, runner.child)>>]
    /\ UNCHANGED <<idxVars, storeVars, helpVars, session, debounce, overstrike, lookups>>

-----------------------------------------------------------------------------
(* Overstrike stripping of help texts                                      *)

\* The longest text and the most passes over it.
MaxText == 5

MaxPasses == 2

\* '\b'
Backspace == 8

\* The runes "a", "b" and backspace.
TextRunes == {97, 98, Backspace}

Texts == UNION {[1..n -> TextRunes] : n \in 0..MaxText}

\* The loop of removeOverstrike from index i, counted from one.
RECURSIVE removeOverstrikeFrom(_, _)
removeOverstrikeFrom(runes, i) ==
    IF i > Len(runes) THEN << >>
    ELSE IF i + 2 <= Len(runes) /\ runes[i + 1] = Backspace
    THEN <<runes[i + 2]>> \o removeOverstrikeFrom(runes, i + 3)
    ELSE <<runes[i]>> \o removeOverstrikeFrom(runes, i + 1)

removeOverstrike(input) == removeOverstrikeFrom(input, 1)

Strip ==
    /\ overstrike # << >>
    /\ overstrike.passes < MaxPasses
    /\ overstrike' = [text |-> removeOverstrike(overstrike.text),
                      passes |-> overstrike.passes + 1]
    /\ UNCHANGED <<idxVars, storeVars, helpVars, session, debounce, runner, lookups>>

-----------------------------------------------------------------------------
(* Runs                                                                    *)

\* A new run of the program: NewFilesystemIndexer(config) with the
\* max_indexed_files of the configuration file as it is then.
NewFilesystemIndexer(max) ==
    /\ SetIndexState(NewIndexState)
    /\ maxIndexedFiles' = max
    /\ live' = {}
    /\ adds' = NoAdds(adds)
    /\ indexed' = << >>
    /\ synced' = SyncedAs(synced, NewIndexState)
    /\ UNCHANGED <<env, indexFile, saved, storeVars, helpVars, uiVars>>

IndexInit ==
    /\ env \in DOMAIN Environments \ {"disk", "refresh", "session", "avl", "clean"}
    /\ bloomFilter = NewIndexState.bloomFilter
    /\ countMinSketch = NewIndexState.countMinSketch
    /\ pathRecords = << >>
    /\ pathIndex = << >>
    /\ rootPaths = << >>
    /\ isDirty = FALSE
    /\ maxIndexedFiles \in Env.maxes
    /\ indexFile = << >>
    /\ live = {}
    /\ saved = << >>
    /\ adds = << >>
    /\ indexed = << >>
    /\ synced = << >>

StoreInit ==
    /\ tree = Nil
    /\ history \in Env.histories
    /\ ingested = 0
    /\ stored = << >>

HelpInit ==
    /\ helpCache = NewOptimizedHelpCache
    /\ clock = 0
    /\ helpResult = << >>
    /\ lastWrite = << >>

\* No file search UI, no search box, no command run, no text.
UiInit ==
    /\ session = << >>
    /\ debounce = << >>
    /\ runner = << >>
    /\ overstrike = << >>
    /\ lookups = << >>

Init == IndexInit /\ StoreInit /\ HelpInit /\ UiInit

Next ==
    \/ \E p \in Env.paths, t \in Env.instants :
          \E l \in (IF p = << >> THEN {"err"} ELSE Env.lstats) : AddPath(p, t, l)
    \/ \E r \in Env.roots, t \in Env.instants :
          \E w \in Walks(r) : IndexDirectoryWithProgress(r, w, t)
    \/ \E rs \in Env.rootLists, t \in Env.instants :
          \E walks \in WalksOf(rs) : IndexDirectoriesWithProgress(rs, walks, t)
    \/ \E pre \in Env.prefixes, st \in BOOLEAN, d \in 0..1, t \in Env.nows :
          \E missing \in (IF st THEN SUBSET Statable ELSE {{}}) :
              CleanupIndex(pre, st, d, t, missing)
    \/ ClearIndex
    \/ SaveToFile
    \/ PersistIndex
    \/ LoadFromFile
    \/ \E max \in Env.maxes : NewFilesystemIndexer(max)
    \/ \E c \in Env.commands, ts \in Env.stamps, f \in 1..MaxFreq :
          Insert(c, [Command |-> c, Timestamp |-> ts, Frequency |-> f])
    \/ readHistoryAndPopulateTree

Spec == Init /\ [][Next]_vars

\* The help subsystem on its own: the index and the store stay as constructed.
InitHelp ==
    /\ env \in DOMAIN HelpEnvironments \ {"lookups"}
    /\ bloomFilter = NewIndexState.bloomFilter
    /\ countMinSketch = NewIndexState.countMinSketch
    /\ pathRecords = << >>
    /\ pathIndex = << >>
    /\ rootPaths = << >>
    /\ isDirty = FALSE
    /\ maxIndexedFiles = MaxFiles
    /\ indexFile = << >>
    /\ live = {}
    /\ saved = << >>
    /\ adds = << >>
    /\ indexed = << >>
    /\ synced = << >>
    /\ tree = Nil
    /\ history = << >>
    /\ ingested = 0
    /\ stored = << >>
    /\ HelpInit
    /\ UiInit

NextHelp ==
    \/ \E cmdParts \in HelpEnv.direct : \E world \in Worlds(cmdParts) :
          AskHelp(cmdParts, world)
    \/ \E cmd \in HelpEnv.cmdlines, world \in HelpEnv.worlds : GetOrfillCache(cmd, world)
    \/ \E cmd \in HelpEnv.cmdlines, text \in HelpEnv.texts : CacheHelpPage(cmd, text)
    \/ DeleteExpired
    \/ \E minutes \in HelpEnv.ticks : Tick(minutes)

SpecHelp == InitHelp /\ [][NextHelp]_vars

\* The path index fed by AddPath alone, with the adds of every record counted.
InitCounted ==
    /\ env \in {"files", "odd"}
    /\ bloomFilter = NewIndexState.bloomFilter
    /\ countMinSketch = NewIndexState.countMinSketch
    /\ pathRecords = << >>
    /\ pathIndex = << >>
    /\ rootPaths = << >>
    /\ isDirty = FALSE
    /\ maxIndexedFiles \in Env.maxes
    /\ indexFile = << >>
    /\ live = {}
    /\ saved = << >>
    /\ adds = << << >> >>
    /\ indexed = << >>
    /\ synced = << >>
    /\ StoreInit
    /\ HelpInit
    /\ UiInit

NextCounted ==
    \/ \E p \in Env.paths, t \in Env.instants :
          \E l \in (IF p = << >> THEN {"err"} ELSE Env.lstats) : AddPath(p, t, l)
    \/ \E pre \in Env.prefixes, st \in BOOLEAN, d \in 0..1, t \in Env.nows :
          \E missing \in (IF st THEN SUBSET Statable ELSE {{}}) :
              CleanupIndex(pre, st, d, t, missing)
    \/ ClearIndex
    \/ SaveToFile
    \/ PersistIndex
    \/ LoadFromFile
    \/ \E max \in Env.maxes : NewFilesystemIndexer(max)

SpecCounted == InitCounted /\ [][NextCounted]_vars

\* The path index on a disk whose writes can fail, with the history of what
\* was last constructed, saved or loaded.
InitDisk ==
    /\ env = "disk"
    /\ bloomFilter = NewIndexState.bloomFilter
    /\ countMinSketch = NewIndexState.countMinSketch
    /\ pathRecords = << >>
    /\ pathIndex = << >>
    /\ rootPaths = << >>
    /\ isDirty = FALSE
    /\ maxIndexedFiles \in Env.maxes
    /\ indexFile = << >>
    /\ live = {}
    /\ saved = << >>
    /\ adds = << >>
    /\ indexed = << >>
    /\ synced = <<IndexData(NewIndexState)>>
    /\ StoreInit
    /\ HelpInit
    /\ UiInit

NextDisk ==
    \/ \E p \in Env.paths, t \in Env.instants, l \in Env.lstats :
          AccessBounded /\ AddPath(p, t, l)
    \/ \E r \in Env.roots, t \in Env.instants :
          \E w \in UnreadableWalks(r) : IndexDirectoryWithProgress(r, w, t)
    \/ \E pre \in Env.prefixes, t \in Env.nows : CleanupIndex(pre, FALSE, 0, t, {})
    \/ ClearIndex
    \/ \E o \in Env.saves : SaveToFileWith(o)
    \/ \E o \in Env.saves : PersistIndexWith(o)
    \/ LoadFromFile
    \/ \E max \in Env.maxes : NewFilesystemIndexer(max)

SpecDisk == InitDisk /\ [][NextDisk]_vars

\* The file search UI on an index that earlier AddPath calls have filled.
IndexStateInit ==
    /\ bloomFilter = NewIndexState.bloomFilter
    /\ countMinSketch = NewIndexState.countMinSketch
    /\ pathRecords = << >>
    /\ pathIndex = << >>
    /\ rootPaths = << >>
    /\ isDirty = FALSE
    /\ maxIndexedFiles \in Env.maxes
    /\ indexFile = << >>
    /\ live = {}
    /\ saved = << >>
    /\ adds = << >>
    /\ indexed = << >>
    /\ synced = << >>

InitSession ==
    /\ env = "session"
    /\ IndexStateInit
    /\ StoreInit
    /\ HelpInit
    /\ UiInit

NextSession ==
    \/ \E p \in Env.paths, t \in Env.instants, l \in Env.lstats :
          session = << >> /\ AddPath(p, t, l)
    \/ runFilesystemSearch
    \/ \E q \in Env.queries, f \in BOOLEAN, now \in Env.nows : SearchStart(q, f, now)
    \/ SearchScan
    \/ SearchRank
    \/ SearchEnd
    \/ \E i \in 1..MaxFiles, t \in Env.nows : Enter(i, t)
    \/ AddBegin
    \/ AddRecord
    \/ AddCount
    \/ PersistSpawn
    \/ PersistCreate
    \/ PersistWrite
    \/ SessionExit

SpecSession == InitSession /\ [][NextSession]_vars

\* The help lookups of the history UI: the debouncer goroutine and the main
\* goroutine repaint the help widget through one cache, within one lifetime
\* of its entries.
InitLookups ==
    /\ env = "lookups"
    /\ bloomFilter = NewIndexState.bloomFilter
    /\ countMinSketch = NewIndexState.countMinSketch
    /\ pathRecords = << >>
    /\ pathIndex = << >>
    /\ rootPaths = << >>
    /\ isDirty = FALSE
    /\ maxIndexedFiles = MaxFiles
    /\ indexFile = << >>
    /\ live = {}
    /\ saved = << >>
    /\ adds = << >>
    /\ indexed = << >>
    /\ synced = << >>
    /\ tree = Nil
    /\ history = << >>
    /\ ingested = 0
    /\ stored = << >>
    /\ HelpInit
    /\ session = << >>
    /\ debounce = << >>
    /\ runner = << >>
    /\ overstrike = << >>
    /\ lookups = [pending |-> [thread \in LookupThreads |-> << >>],
                  dispatched |-> [cmd \in HelpEnv.cmdlines |-> 0],
                  served |-> [cmd \in HelpEnv.cmdlines |-> FALSE]]

NextLookups ==
    \/ \E thread \in LookupThreads, cmd \in HelpEnv.cmdlines : LookupStart(thread, cmd)
    \/ \E thread \in LookupThreads, world \in HelpEnv.worlds : LookupFill(thread, world)

SpecLookups == InitLookups /\ [][NextLookups]_vars

\* The event loop of a search UI beside its debouncer goroutine.
InitDebounce ==
    /\ env = "session"
    /\ IndexStateInit
    /\ StoreInit
    /\ HelpInit
    /\ session = << >>
    /\ debounce \in {NewSearchState(ui) : ui \in {"history", "files"}}
    /\ runner = << >>
    /\ overstrike = << >>
    /\ lookups = << >>

NextDebounce ==
    \/ Tock
    \/ KeyChar(97)
    \/ KeyBackspace
    \/ KeyReset
    \/ Expire
    \/ Update

SpecDebounce == InitDebounce /\ [][NextDebounce]_vars

\* The history UI on a store of two commands, "a" and "aa".
UiCommands ==
    <<[Key |-> KeyA, Value |-> [Command |-> KeyA, Timestamp |-> Nil, Frequency |-> 1]],
      [Key |-> <<97, 97>>,
       Value |-> [Command |-> <<97, 97>>, Timestamp |-> Nil, Frequency |-> 1]]>>

InitHistoryUi ==
    /\ env = "session"
    /\ IndexStateInit
    /\ tree = InsertRecords(Nil, UiCommands, 1)
    /\ history = << >>
    /\ ingested = 0
    /\ stored = << >>
    /\ HelpInit
    /\ session = << >>
    /\ debounce = NewHistoryUi
    /\ runner = << >>
    /\ overstrike = << >>
    /\ lookups = << >>

NextHistoryUi ==
    \/ Running /\ Tock
    \/ Running /\ KeyChar(97)
    \/ Running /\ KeyBackspace
    \/ Running /\ KeyReset
    \/ Running /\ Expire
    \/ UpdateSearch
    \/ UpdateRows
    \/ KeyCtrlR
    \/ KeyCtrlU
    \/ KeyDown

SpecHistoryUi == InitHistoryUi /\ [][NextHistoryUi]_vars

\* One call of RunWithTimeout.
InitRunner ==
    /\ env = "session"
    /\ IndexStateInit
    /\ StoreInit
    /\ HelpInit
    /\ session = << >>
    /\ debounce = << >>
    /\ runner = Started
    /\ overstrike = << >>
    /\ lookups = << >>

NextRunner ==
    \/ Fork
    \/ \E p \in Chunks : ProcessWrite(p)
    \/ \E n \in 1..MaxChunk : Copy(n)
    \/ \E status \in {"exited", "failed"} : ChildExit(status)
    \/ DescendantExit
    \/ Deadline
    \/ Kill
    \/ Return

SpecRunner == InitRunner /\ [][NextRunner]_vars

\* The same where the runner's own steps and the timer are not put off
\* forever; the processes may write and exit or not.
SpecRunnerFair ==
    /\ SpecRunner
    /\ WF_vars(Deadline)
    /\ WF_vars(Kill)
    /\ WF_vars(\E n \in 1..MaxChunk : Copy(n))
    /\ WF_vars(Return)

\* removeOverstrike applied to a text and to its own output.
InitOverstrike ==
    /\ env = "session"
    /\ IndexStateInit
    /\ StoreInit
    /\ HelpInit
    /\ session = << >>
    /\ debounce = << >>
    /\ runner = << >>
    /\ overstrike \in {[text |-> text, passes |-> 0] : text \in Texts}
    /\ lookups = << >>

NextOverstrike == Strip

SpecOverstrike == InitOverstrike /\ [][NextOverstrike]_vars

\* The fs index and fs clean commands, each a process of its own, on a disk
\* whose writes can fail.
InitClean ==
    /\ env = "clean"
    /\ IndexStateInit
    /\ StoreInit
    /\ HelpInit
    /\ UiInit

NextClean ==
    \/ \E max \in Env.maxes, rs \in Env.rootLists, t \in Env.instants, o \in Env.saves :
          \E walks \in RootWalksOf(rs) : fsIndex(max, rs, walks, t, o)
    \/ \E max \in Env.maxes, flags \in CleanFlags(Env.prefixes), o \in Env.saves :
          \E confirmed \in Answers(flags), now \in Times(flags, Env.nows),
             missing \in StatFailures(flags, RecordPaths(LoadOrCreateResult(indexFile).s)) :
              fsClean(max, flags, confirmed, now, missing, o)

SpecClean == InitClean /\ [][NextClean]_vars

\* The command store under inserts and deletes, with the history of the keys
\* it should hold.
InitStore ==
    /\ env = "avl"
    /\ IndexStateInit
    /\ tree = Nil
    /\ history = << >>
    /\ ingested = 0
    /\ stored = <<[keys |-> {}, op |-> "none", key |-> << >>, before |-> Nil]>>
    /\ HelpInit
    /\ UiInit

NextStore ==
    \/ \E c \in Env.commands, ts \in Env.stamps :
          Insert(c, [Command |-> c, Timestamp |-> ts, Frequency |-> 1])
    \/ \E c \in Env.commands : Delete(c)

SpecStore == InitStore /\ [][NextStore]_vars

\* The fs index and fs refresh commands, each a process of its own, on two
\* roots that can vanish and a disk whose writes can fail.
InitRefresh ==
    /\ env = "refresh"
    /\ bloomFilter = NewIndexState.bloomFilter
    /\ countMinSketch = NewIndexState.countMinSketch
    /\ pathRecords = << >>
    /\ pathIndex = << >>
    /\ rootPaths = << >>
    /\ isDirty = FALSE
    /\ maxIndexedFiles \in Env.maxes
    /\ indexFile = << >>
    /\ live = {}
    /\ saved = << >>
    /\ adds = << >>
    /\ indexed = << >>
    /\ synced = << >>
    /\ StoreInit
    /\ HelpInit
    /\ UiInit

NextRefresh ==
    \/ \E max \in Env.maxes, rs \in Env.rootLists, t \in Env.instants, o \in Env.saves :
          \E walks \in RootWalksOf(rs) : fsIndex(max, rs, walks, t, o)
    \/ \E max \in Env.maxes, t \in Env.instants, o \in Env.saves :
          \E x \in Refreshes(LoadOrCreateResult(indexFile).s) :
              fsRefresh(max, x.gone, x.walks, t, o)

SpecRefresh == InitRefresh /\ [][NextRefresh]_vars

-----------------------------------------------------------------------------
(* Claims about the path index                                             *)

\* C1: test_membership never answers false for a path that was passed to add
\* and has not been removed by cleanup or clear since, whether or not the add
\* created a record.
C1_NoFalseNegative == \A p \in live : TestMembership(p)

\* C2: at every point the number of path records held by the index is at most
\* the configured max_indexed_files.
C2_RecordCountWithinLimit == Len(pathRecords) <= maxIndexedFiles

\* C3: for every path key of the path-to-index map, the record at the mapped
\* position has path bytes that decode to that same path.
C3_MapMatchesRecords ==
    \A p \in DOMAIN pathIndex :
        /\ pathIndex[p] < Len(pathRecords)
        /\ bytesToPath(pathRecords[pathIndex[p] + 1].Path) = p

\* C4: a load of the index file yields the record sequence and the tracked
\* roots that the index held when the file was saved.
C4_SaveLoadRoundTrip ==
    [][LoadFromFile => /\ pathRecords' = saved[1].records
                       /\ rootPaths' = saved[1].roots]_vars

\* A load has brought back a saved index with a record and a tracked root.
C4_Witness ==
    /\ saved # << >>
    /\ live = {}
    /\ ~isDirty
    /\ Len(pathRecords) >= 1
    /\ Len(rootPaths) >= 1
    /\ pathRecords = saved[1].records
    /\ rootPaths = saved[1].roots

-----------------------------------------------------------------------------
(* Claims about the command store                                          *)

LaterOf(a, b) ==
    IF a = Nil THEN b
    ELSE IF b = Nil THEN a
    ELSE IF b[1] > a[1] THEN b ELSE a

\* C5: inserting a command whose key is already in the store updates the
\* stored record in place: its frequency increases and its last_seen becomes
\* the later of the old and the new timestamp.
C5_DuplicateInsertUpdates ==
    \A c \in Env.commands, ts \in Env.stamps, f \in 1..MaxFreq :
        searchNode(tree, c) # Nil =>
            LET value == [Command |-> c, Timestamp |-> ts, Frequency |-> f]
                old == searchNode(tree, c)[1].Value
                new == searchNode(insertRecursive(tree, c, value), c)[1].Value
            IN /\ new.Frequency > old.Frequency
               /\ new.Timestamp = LaterOf(old.Timestamp, ts)

\* C6: for every store content and every prefix, search_prefix returns every
\* record whose command has the prefix as a byte prefix, and only those, in
\* ascending key order, whatever bytes follow the prefix in the keys.
C6_PrefixSearchExact ==
    \A prefix \in Env.queries :
        LET HasIt(r) == HasPrefix(r.Key, prefix)
        IN Entries(SearchPrefix(tree, prefix)) = SelectSeq(Records(tree), HasIt)

\* C7: an empty query returns an empty result from prefix search, fuzzy
\* search and ranked search, whatever the store contains.
C7_EmptyQueryEmptyResult ==
    /\ SearchPrefix(tree, << >>) = << >>
    /\ SearchFuzzy(tree, << >>) = << >>
    /\ \A fuzzy \in BOOLEAN, now \in Env.nows :
           SearchWithRanking(tree, << >>, fuzzy, now) = << >>

SameScore(a, b) == ~ScoreGreater(a.Score, b.Score) /\ ~ScoreGreater(b.Score, a.Score)

\* out is in descending score order, and of two results with equal scores the
\* one Before the other in the container comes first.
DescendingStable(out, Before(_, _)) ==
    \A i, j \in 1..Len(out) :
        i < j => /\ ~ScoreGreater(out[j].Score, out[i].Score)
                 /\ SameScore(out[i], out[j]) => Before(out[i], out[j])

FileNows == Env.nows \cup {-1}

\* C8: the output of a ranked query (ranked search of the command store,
\* search of the path index) is in descending score order, and results with
\* equal scores keep the order of the container: ascending key for commands,
\* record order for paths.
C8_RankedOutputSortedStable ==
    /\ \A query \in Env.queries, fuzzy \in BOOLEAN, now \in Env.nows :
           LET KeyBefore(a, b) == StrLess(a.Command, b.Command)
           IN DescendingStable(SearchWithRanking(tree, query, fuzzy, now), KeyBefore)
    /\ \A query \in Env.queries, fuzzy \in BOOLEAN, now \in FileNows :
           LET RecordBefore(a, b) == pathIndex[a.Path] <= pathIndex[b.Path]
           IN DescendingStable(SearchFiles(IndexState, query, fuzzy, now, {}), RecordBefore)

\* A ranked command query whose output has a tie left in key order and a
\* better-scored command moved in front of a smaller key.
C8_Witness ==
    \E query \in Env.queries, fuzzy \in BOOLEAN, now \in Env.nows :
        LET out == SearchWithRanking(tree, query, fuzzy, now)
        IN /\ Len(out) = 3
           /\ \E i \in 1..2 : SameScore(out[i], out[i + 1])
           /\ \E i \in 1..2 : /\ ScoreGreater(out[i].Score, out[i + 1].Score)
                              /\ StrLess(out[i + 1].Command, out[i].Command)

\* A path query whose output has a tie left in record order and a
\* better-scored path moved in front of an earlier record.
C8_WitnessPaths ==
    \E query \in Env.queries, fuzzy \in BOOLEAN, now \in FileNows :
        LET out == SearchFiles(IndexState, query, fuzzy, now, {})
        IN /\ Len(out) >= 2
           /\ \/ SameScore(out[1], out[2])
              \/ /\ ScoreGreater(out[1].Score, out[2].Score)
                 /\ pathIndex[out[1].Path] > pathIndex[out[2].Path]

-----------------------------------------------------------------------------
(* Claims about history ingestion                                          *)

\* The positions of the history that count for command c.
Occurrences(c) ==
    {i \in 1..Len(history) :
        history[i].Command = c /\ c # << >> /\ history[i].Timestamp # Nil}

\* C9: after ingesting a history into an empty store, the store holds exactly
\* the commands that occur with non-empty text and a timestamp, each with the
\* number of such occurrences as frequency and the latest of their timestamps
\* as last_seen, whatever the order of the history.
C9_IngestionResult ==
    ingested = 1 =>
        LET records == Records(tree)
            commands == {history[i].Command : i \in 1..Len(history)}
        IN /\ {records[i].Key : i \in 1..Len(records)}
                  = {c \in commands : Occurrences(c) # {}}
           /\ Len(records) = Cardinality({c \in commands : Occurrences(c) # {}})
           /\ \A i \in 1..Len(records) :
                 LET occ == Occurrences(records[i].Key)
                 IN /\ records[i].Value.Frequency = Cardinality(occ)
                    /\ records[i].Value.Frequency >= 1
                    /\ records[i].Value.Timestamp
                           = <<SetMax({history[k].Timestamp[1] : k \in occ})>>

\* One ingestion of a history with an ignored entry and a command that occurs
\* twice, the earlier occurrence carrying the later timestamp.
C9_Witness ==
    /\ ingested = 1
    /\ Len(history) = 3
    /\ \E i \in 1..3 : ~Counted(history[i])
    /\ \E i, j \in 1..3 :
          /\ i < j
          /\ Counted(history[i]) /\ Counted(history[j])
          /\ history[i].Command = history[j].Command
          /\ history[i].Timestamp[1] > history[j].Timestamp[1]
    /\ Len(Records(tree)) = 1

\* C10: ingesting the same history a second time leaves the stored records
\* (keys, frequencies, last_seen) as they were after ingesting it once.
C10_IngestionIdempotent ==
    [][(readHistoryAndPopulateTree /\ ingested = 1)
          => Records(tree') = Records(tree)]_vars

\* Two ingestions of a history with two commands, one of them repeated.
C10_Witness ==
    /\ ingested = 2
    /\ Len(Records(tree)) = 2
    /\ \E i \in 1..2 : Records(tree)[i].Value.Frequency = 2

-----------------------------------------------------------------------------
(* Claims about the help dispatcher and the help cache                     *)

\* The registry positions the dispatcher may ask for the command of the last
\* dispatch: TLDR, and every other strategy that supports its base command.
Asked ==
    LET r == helpResult[1]
    IN {i \in 1..Len(Registry) :
           Registry[i] = "tldr" \/ SupportsCommand(i, r.cmdParts[1], r.world)}

Winners ==
    {i \in Asked : /\ helpResult[1].world.result[i].err = Nil
                   /\ helpResult[1].world.result[i].help # << >>}

\* C11: for a non-empty command the dispatcher returns the text of the first
\* strategy, TLDR first and then the supporting ones in registration order,
\* that succeeds with non-empty output; failing and empty strategies before
\* it do not keep it from being asked.
C11_FirstSuccessReturned ==
    (helpResult # << >> /\ helpResult[1].cmdParts # << >> /\ Winners # {}) =>
        /\ helpResult[1].out.err = Nil
        /\ helpResult[1].out.help = helpResult[1].world.result[SetMin(Winners)].help

\* A dispatch won by the last registered strategy after TLDR failed, the tool
\* strategy returned nothing and the man strategy failed.
C11_Witness ==
    /\ helpResult # << >>
    /\ helpResult[1].cmdParts = CmdGitSt
    /\ Cardinality(Asked) = 4
    /\ Winners = {Len(Registry)}
    /\ helpResult[1].world.result[2].help = << >>
    /\ helpResult[1].world.result[2].err = Nil
    /\ helpResult[1].world.result[9].err # Nil
    /\ helpResult[1].out.help = helpResult[1].world.result[Len(Registry)].help

\* C12: when no strategy yields non-empty output, the dispatcher fails with
\* the no-strategy error exactly when no strategy after TLDR supported the
\* command, and otherwise with the strategy-failed error carrying the error
\* of the last strategy asked.
C12_FailureKinds ==
    (helpResult # << >> /\ helpResult[1].cmdParts # << >> /\ Winners = {}) =>
        LET r == helpResult[1]
            supporting == Asked \ {1}
        IN /\ r.out.help = << >>
           /\ r.out.err # Nil
           /\ IF supporting = {}
              THEN r.out.err[1].kind = "no help strategy found"
              ELSE /\ r.out.err[1].kind = "failed to get help"
                   /\ r.out.err[1].cause = r.world.result[SetMax(supporting)].err

\* A failed dispatch in which the tool strategy failed, the man strategy was
\* asked last and failed, and the man strategy's error is the one carried.
C12_Witness ==
    /\ helpResult # << >>
    /\ helpResult[1].cmdParts = CmdGitSt
    /\ Winners = {}
    /\ Asked = {1, 2, 9}
    /\ helpResult[1].world.result[2].err # Nil
    /\ helpResult[1].out.err[1].kind = "failed to get help"
    /\ helpResult[1].out.err[1].cause = helpResult[1].world.result[9].err
    /\ helpResult[1].out.err[1].cause # Nil

\* C13: on a cache miss with a failing dispatch nothing is cached for the
\* command, so the next lookup of it misses again.
C13_FailureNotCached ==
    [][\A cmd \in HelpEnv.cmdlines, world \in HelpEnv.worlds :
          (/\ GetOrfillCache(cmd, world)
           /\ GetHelpPage(helpCache, cmd, clock) = << >>
           /\ GetHelp(splitCommand(cmd), world).err # Nil)
          => GetHelpPage(helpCache', cmd, clock') = << >>]_vars

\* C14: a lookup returns the text most recently written for the key when
\* that write is less than one lifetime old, and the empty string for a key
\* never written or written more than one lifetime ago.
C14_LookupFreshOrEmpty ==
    \A cmd \in HelpEnv.cmdlines :
        LET page == GetHelpPage(helpCache, cmd, clock)
        IN IF cmd \notin DOMAIN lastWrite THEN page = << >>
           ELSE /\ clock - lastWrite[cmd].at < helpCacheExpiration
                   => page = lastWrite[cmd].text
                /\ clock - lastWrite[cmd].at > helpCacheExpiration
                   => page = << >>

\* A written text that has outlived its lifetime while its item is still in
\* the cache, and a lookup of it that comes back empty.
C14_Witness ==
    /\ CmdLs1 \in DOMAIN lastWrite
    /\ CmdLs1 \in DOMAIN helpCache
    /\ lastWrite[CmdLs1].text = ManualText
    /\ lastWrite[CmdLs1].at > 0
    /\ clock - lastWrite[CmdLs1].at > helpCacheExpiration
    /\ GetHelpPage(helpCache, CmdLs1, clock) = << >>

-----------------------------------------------------------------------------
(* Claims about path search, cleanup and directory indexing                *)

\* What os.Stat can fail on when a query or a cleanup runs.
Missings == SUBSET Statable

\* C15: a path whose live file cannot be stat'ed at query time never appears
\* in the results of a search of the path index.
C15_UnstatableOmitted ==
    \A query \in Env.queries, fuzzy \in BOOLEAN, now \in Env.nows, missing \in Missings :
        LET out == SearchFiles(IndexState, query, fuzzy, now, missing)
        IN \A i \in 1..Len(out) : out[i].Path \notin missing

\* The cleanups a state can undergo.
CleanupOptions ==
    {[Path |-> pre, RemoveStale |-> st, OlderThanDays |-> d] :
        pre \in Env.prefixes, st \in BOOLEAN, d \in 0..1}

\* What os.Stat can fail on during a cleanup: nothing is stat'ed without the
\* stale check.
MissingsOf(options) == IF options.RemoveStale THEN Missings ELSE {{}}

Cleaned(options, now, missing) ==
    CleanupResult(IndexState, options.Path, options.RemoveStale, options.OlderThanDays,
                  now, missing)

\* C16: a cleanup that removes a record leaves a bloom filter whose bits are
\* exactly those of the retained paths, and a sketch whose estimate for every
\* retained record's path is at least the number of adds of that path since
\* the record was created.
C16_CleanupRebuildsFilterAndSketch ==
    \A options \in CleanupOptions, now \in Env.nows :
      \A missing \in MissingsOf(options) :
        LET r == Cleaned(options, now, missing)
            retained == {bytesToPath(r.s.pathRecords[k].Path) : k \in 1..Len(r.s.pathRecords)}
        IN Len(r.s.pathRecords) < Len(pathRecords) =>
              /\ r.s.bloomFilter.bits =
                    UNION {BloomLocations(r.s.bloomFilter, p) : p \in retained}
              /\ \A p \in retained : BloomTestString(r.s.bloomFilter, p)
              /\ \A k \in 1..Len(r.s.pathRecords) :
                    SketchEstimate(r.s.countMinSketch, bytesToPath(r.s.pathRecords[k].Path))
                       >= adds[1][r.kept[k]]

\* A cleanup that removes one record and retains one whose path was added
\* twice; the rebuilt sketch counts it twice.
C16_Witness ==
    \E options \in CleanupOptions, now \in Env.nows :
      \E missing \in MissingsOf(options) :
        LET r == Cleaned(options, now, missing)
        IN /\ Len(pathRecords) = 2
           /\ Len(r.s.pathRecords) = 1
           /\ adds[1][r.kept[1]] = 2
           /\ SketchEstimate(r.s.countMinSketch, bytesToPath(r.s.pathRecords[1].Path)) = 2

\* Whether a record matches an enabled rule of a cleanup.
MatchesPrefix(record, options) ==
    options.Path # << >> /\ HasPrefix(bytesToPath(record.Path), options.Path)

MatchesStale(record, options, missing) ==
    options.RemoveStale /\ bytesToPath(record.Path) \in missing

MatchesAge(record, options, now) ==
    options.OlderThanDays > 0
    /\ record.Timestamp < now - HoursPerDay * options.OlderThanDays

\* C17: cleanup removes exactly the records that match an enabled rule and
\* counts each of them once, under the first rule it matches (path prefix,
\* stale, age); entries-removed is total-before minus the records retained.
C17_CleanupCountsFirstRule ==
    \A options \in CleanupOptions, now \in Env.nows :
      \A missing \in MissingsOf(options) :
        LET r == Cleaned(options, now, missing)
            stats == CleanupStats(IndexState, options, now, missing)
            at == 1..Len(pathRecords)
            matching == {i \in at : \/ MatchesPrefix(pathRecords[i], options)
                                    \/ MatchesStale(pathRecords[i], options, missing)
                                    \/ MatchesAge(pathRecords[i], options, now)}
            staleFirst == {i \in at : /\ ~MatchesPrefix(pathRecords[i], options)
                                      /\ MatchesStale(pathRecords[i], options, missing)}
            ageFirst == {i \in at : /\ ~MatchesPrefix(pathRecords[i], options)
                                    /\ ~MatchesStale(pathRecords[i], options, missing)
                                    /\ MatchesAge(pathRecords[i], options, now)}
        IN /\ Len(r.s.pathRecords) = Len(pathRecords) - Cardinality(matching)
           /\ \A k \in 1..Len(r.s.pathRecords) :
                 /\ r.kept[k] \notin matching
                 /\ r.s.pathRecords[k] = pathRecords[r.kept[k]]
           /\ \A k \in 1..(Len(r.kept) - 1) : r.kept[k] < r.kept[k + 1]
           /\ stats.TotalEntries = Len(pathRecords)
           /\ stats.RemovedEntries = Cardinality(matching)
           /\ stats.RemovedEntries = stats.TotalEntries - Len(r.s.pathRecords)
           /\ stats.StaleFiles = Cardinality(staleFirst)
           /\ stats.OldFiles = Cardinality(ageFirst)

\* A cleanup of a record that is both stale and old: it is removed and
\* counted once, as stale.
C17_Witness ==
    \E options \in CleanupOptions, now \in Env.nows :
      \E missing \in MissingsOf(options) :
        LET stats == CleanupStats(IndexState, options, now, missing)
        IN /\ Len(pathRecords) = 1
           /\ MatchesStale(pathRecords[1], options, missing)
           /\ MatchesAge(pathRecords[1], options, now)
           /\ Cleaned(options, now, missing).s.pathRecords = << >>
           /\ stats.RemovedEntries = 1
           /\ stats.StaleFiles = 1
           /\ stats.OldFiles = 0

\* Options that enable no rule.
NoRule == {[Path |-> << >>, RemoveStale |-> FALSE, OlderThanDays |-> d] : d \in (0 - 1)..0}

\* C18: a cleanup with an empty path prefix, no stale check and no positive
\* number of days changes nothing: records, map, bloom filter, sketch,
\* tracked roots and dirty flag stay as they were, and nothing is counted
\* as removed.
C18_NoRuleNoChange ==
    \A options \in NoRule, now \in Env.nows, missing \in Missings :
        /\ Cleaned(options, now, missing).s = IndexState
        /\ CleanupStats(IndexState, options, now, missing).RemovedEntries = 0

\* A cleanup without rules of a saved (not dirty) index holding a record that
\* is older than the clock reading and whose file is gone.
C18_Witness ==
    \E options \in NoRule, now \in Env.nows, missing \in Missings :
        /\ Len(pathRecords) = 1
        /\ ~isDirty
        /\ options.OlderThanDays = 0
        /\ pathRecords[1].Timestamp < now
        /\ bytesToPath(pathRecords[1].Path) \in missing
        /\ Cleaned(options, now, missing).s.pathRecords = pathRecords

\* C19: an indexing call that the file limit ended returns the limit-reached
\* error to its caller.
C19_LimitReported ==
    (indexed # << >> /\ indexed[1].limit) => indexed[1].err = "limit"

\* C20: when an indexing call returns, every root passed to it is in the
\* tracked roots, in absolute form and once.
C20_RootsTracked ==
    [][(indexed' # indexed /\ indexed' # << >>) =>
          \A i \in 1..Len(indexed'[1].roots) :
              Cardinality({j \in 1..Len(rootPaths') :
                              rootPaths'[j] = Abs(indexed'[1].roots[i])}) = 1]_vars

-----------------------------------------------------------------------------
(* Claims about refresh and the index file                                 *)

\* The index a refresh command starts from: the one its process loaded.
Loaded == LoadOrCreateResult(indexFile)

\* The refreshes of the loaded index and the ways their save can end.
Refreshings ==
    {[gone |-> x.gone, walks |-> x.walks, now |-> t, outcome |-> o] :
        x \in Refreshes(Loaded.s), t \in Env.nows, o \in AllSaveOutcomes}

RefreshOf(x) ==
    RefreshResult(Loaded.s, indexFile, maxIndexedFiles, x.gone, x.walks, x.now, x.outcome)

\* C21: after a refresh the tracked roots are exactly the previously tracked
\* roots that still exist, also when every tracked root has vanished.
C21_RefreshKeepsExistingRoots ==
    \A x \in Refreshings :
        (Loaded.ok /\ Loaded.s.rootPaths # << >>) =>
            RefreshOf(x).s.rootPaths = ValidRootPaths(Loaded.s, x.gone)

\* The tracked roots an index file holds.
FileRoots(f) == [i \in 1..Len(f.roots) |-> SubSeq(f.roots[i].pathBytes, 1, f.roots[i].pathLen)]

\* The file holds the records and the tracked roots of s, all of them.
Holds(file, s) ==
    /\ file # << >>
    /\ file[1].magic = FileMagic
    /\ file[1].version = 2
    /\ file[1].recordCount = Len(s.pathRecords)
    /\ file[1].records = s.pathRecords
    /\ file[1].rootPathCount = Len(s.rootPaths)
    /\ FileRoots(file[1]) = s.rootPaths

\* C22: whenever a refresh completes successfully, the index file holds the
\* resulting in-memory records and tracked roots, and the dirty flag is clear.
C22_RefreshPersists ==
    \A x \in Refreshings :
        (Loaded.ok /\ RefreshOf(x).err = "none") =>
            /\ Holds(RefreshOf(x).file, RefreshOf(x).s)
            /\ ~RefreshOf(x).s.isDirty

\* A refresh command has dropped a vanished root, has indexed the other and
\* has written the file.
C22_Witness ==
    /\ indexed # << >>
    /\ Len(indexed[1].roots) = 1
    /\ rootPaths = indexed[1].roots
    /\ Len(pathRecords) = 1
    /\ ~isDirty
    /\ Holds(indexFile, IndexState)
    /\ saved # << >> /\ saved[1].roots = rootPaths

-----------------------------------------------------------------------------
(* Claims about errors of the walk and of the save                         *)

\* The walk of a root meets an error other than permission denied.
MeetsIoError(entries) == \E i \in 1..Len(entries) : entries[i].err = "io"

\* C23: a permission-denied error on an entry is swallowed and the walk
\* continues; any other I/O error met while walking is returned to the
\* caller of the indexing call.
C23_WalkErrorsPropagated ==
    [][/\ \A r \in Env.roots, t \in Env.instants : \A w \in Walks(r) :
             IndexDirectoryWithProgress(r, w, t) =>
                 IF MeetsIoError(w) THEN indexed'[1].err = "io"
                 ELSE indexed'[1].err \in {"none", "limit"}
       /\ \A rs \in Env.rootLists \ {<< >>}, t \in Env.instants : \A walks \in WalksOf(rs) :
             (IndexDirectoriesWithProgress(rs, walks, t) /\ MeetsIoError(walks[rs[1]])) =>
                 indexed'[1].err = "io"]_vars

\* C24: a save that fails or is interrupted leaves the previous index file
\* as it was, intact and loadable (the save writes a sibling temporary file
\* and renames it over the index file only on success).
C24_FailedSaveKeepsFile ==
    [][\A o \in AllSaveOutcomes \ {"ok"} :
          (indexFile # << >> /\ LoadOrCreateResult(indexFile).ok /\ SaveToFileWith(o)) =>
              /\ indexFile' = indexFile
              /\ LoadOrCreateResult(indexFile').ok]_vars

\* C25: whenever the dirty flag is clear, the records, the tracked roots,
\* the bloom filter and the sketch in memory are those of the last successful
\* save or load (or of the construction, before any), so that a persist
\* that skips the write loses nothing.
C25_CleanMeansSynced ==
    ~isDirty => IndexData(IndexState) = synced[1]

-----------------------------------------------------------------------------
(* Claims about goroutines, timers and child processes                     *)

\* The record of the path in a sequence of records shows the timestamp and
\* the access count that a search result gives.
Shows(records, result) ==
    \E k \in 1..Len(records) :
        /\ bytesToPath(records[k].Path) = result.Path
        /\ records[k].Timestamp = result.Metadata.Timestamp
        /\ records[k].AccessCount = result.Metadata.AccessCount

\* C26: a search that runs beside an add observes all of the add's effects
\* or none: every result shows its record as it was before the add or as it
\* is after it.
C26_SearchSeesAllOrNone ==
    (session # << >> /\ session.observed # << >>) =>
        \A j \in 1..Len(session.observed[1].results) :
            \E records \in session.observed[1].snaps :
                Shows(records, session.observed[1].results[j])

\* C27: a query that a newer keystroke supersedes before its debounce
\* delay has expired is never executed, and a search that runs uses the
\* newest input buffer.
C27_SupersededNeverExecuted ==
    debounce # << >> =>
        \A x \in debounce.executed :
            /\ x.query = debounce.typed[x.version].query
            /\ x.version < Len(debounce.typed) =>
                  debounce.typed[x.version + 1].at
                      >= debounce.typed[x.version].at + Delay(debounce.ui)

\* C28: once the runner has killed a child that had not exited by its
\* timeout, the run returns with a status other than success; it does not
\* stay blocked on descendants that hold the child's output open.
C28_TimeoutEndsRun ==
    (runner # << >> /\ runner.child = "killed")
        ~> (runner.returned # << >> /\ runner.returned[1].err # "nil")

Take(s, n) == SubSeq(s, 1, IF Len(s) < n THEN Len(s) ELSE n)

\* C29: the runner retains the first MaxOutputSize bytes of what the
\* processes wrote to stdout and stderr and no more, and the returned text
\* ends in the truncation footer exactly when a byte was dropped.
C29_KeepsFirstBytes ==
    runner # << >> =>
        /\ runner.limitedWriter.w = Take(runner.copied, MaxOutputSize)
        /\ runner.limitedWriter.truncated <=> Len(runner.copied) > MaxOutputSize
        /\ runner.returned # << >> =>
              runner.returned[1].result =
                  IF Len(runner.stream) > MaxOutputSize
                  THEN Take(runner.stream, MaxOutputSize) \o TruncatedFooter
                  ELSE runner.stream

C29_Witness ==
    /\ runner # << >>
    /\ runner.returned # << >>
    /\ Len(runner.stream) = MaxOutputSize + 1
    /\ runner.stream[1] # runner.stream[2]
    /\ runner.returned[1].result = Take(runner.stream, MaxOutputSize) \o TruncatedFooter

\* C30: overstrike stripping is idempotent: once a text has been stripped,
\* stripping it again returns it unchanged.
C30_StripIdempotent ==
    (overstrike # << >> /\ overstrike.passes >= 1) =>
        removeOverstrike(overstrike.text) = overstrike.text

-----------------------------------------------------------------------------
(* Claims about the command store under inserts and deletes                *)

Keys(nodes) == [i \in 1..Len(nodes) |-> nodes[i].Key]

\* C33: after any sequence of inserts and deletes, the in-order traversal
\* of the store yields exactly the keys inserted and not deleted since, each
\* once, in ascending order.
C33_InOrderIsLiveKeys ==
    stored # << >> =>
        /\ \A i \in 1..(Len(InOrder(tree)) - 1) :
               StrLess(InOrder(tree)[i].Key, InOrder(tree)[i + 1].Key)
        /\ {InOrder(tree)[i].Key : i \in 1..Len(InOrder(tree))} = stored[1].keys

\* A delete has just removed a node with two children whose successor was
\* not its right child.
C33_Witness ==
    /\ stored # << >>
    /\ stored[1].op = "Delete"
    /\ searchNode(stored[1].before, stored[1].key) # Nil
    /\ searchNode(stored[1].before, stored[1].key)[1].Left # Nil
    /\ searchNode(stored[1].before, stored[1].key)[1].Right # Nil
    /\ searchNode(stored[1].before, stored[1].key)[1].Right[1].Left # Nil
    /\ Len(InOrder(tree)) = Len(InOrder(stored[1].before)) - 1

\* Every node's stored height is one more than the larger of its children's
\* and its balance factor is -1, 0 or 1.
RECURSIVE WellShaped(_)
WellShaped(node) ==
    \/ node = Nil
    \/ /\ node[1].Height = 1 + Max(getHeight(node[1].Left), getHeight(node[1].Right))
       /\ getBalanceFactor(node) \in -1..1
       /\ WellShaped(node[1].Left)
       /\ WellShaped(node[1].Right)

\* C40: after any sequence of inserts and deletes, every node's stored
\* height equals one plus the larger of its children's heights and every
\* node's balance factor is -1, 0 or 1.
C40_HeightsAndBalance ==
    stored # << >> => WellShaped(tree)

\* A delete below the left of the root has just made the root rotate left.
C40_Witness ==
    /\ stored # << >>
    /\ stored[1].op = "Delete"
    /\ stored[1].before # Nil
    /\ tree # Nil
    /\ StrLess(stored[1].key, stored[1].before[1].Key)
    /\ tree[1].Key # stored[1].before[1].Key
    /\ Len(InOrder(tree)) = Len(InOrder(stored[1].before)) - 1

\* C37: for any set of distinct command records the prefix search, the fuzzy
\* search and the ranked search return the same sequence whatever the order
\* the records were inserted in: the store reached by some order of inserts
\* answers as the store built from the same records in ascending key order.
C37_SearchIgnoresInsertOrder ==
    (env = "store" /\ tree # Nil) =>
        \A q \in Env.queries :
            /\ Entries(SearchPrefix(tree, q))
                  = Entries(SearchPrefix(InsertRecords(Nil, Records(tree), 1), q))
            /\ Entries(SearchFuzzy(tree, q))
                  = Entries(SearchFuzzy(InsertRecords(Nil, Records(tree), 1), q))
            /\ \A f \in BOOLEAN, now \in Env.nows :
                  SearchWithRanking(tree, q, f, now)
                      = SearchWithRanking(InsertRecords(Nil, Records(tree), 1), q, f, now)

-----------------------------------------------------------------------------
(* Claims about commands and their files                                   *)

\* C36: a load that returns an error (bad magic, unsupported version,
\* content cut short) leaves the in-memory index, that is the records, the
\* map, the tracked roots, the bloom filter, the sketch and the dirty flag,
\* as it was before the call.
C36_FailedLoadKeepsIndex ==
    [][(LoadFromFile /\ ~LoadResult(IndexState, indexFile[1]).ok)
           => LoadResult(IndexState, indexFile[1]).s = IndexState]_vars

\* C32: fs clean with --dry-run makes no changes: the index file is the same
\* after the command as before it, whatever the path argument, --stale,
\* --older-than and --clear.
C32_DryRunKeepsFile ==
    (indexed # << >> /\ "clean" \in DOMAIN indexed[1] /\ indexed[1].clean.dryRun)
        => indexFile = indexed[1].before

\* A dry run has reported removals from an index file that holds records.
C32_Witness ==
    /\ indexed # << >>
    /\ "clean" \in DOMAIN indexed[1]
    /\ indexed[1].clean.dryRun
    /\ ~indexed[1].clean.clear
    /\ indexed[1].removed > 0
    /\ indexFile # << >>
    /\ Len(indexFile[1].records) > Len(pathRecords)
    /\ isDirty

-----------------------------------------------------------------------------
(* Claims about the exit of the file search UI                             *)

\* C35: when a file has been opened from the file search UI, the access that
\* AddPath recorded (the new timestamp and the incremented access count) is
\* in the index file when the process has exited, however the goroutine
\* that persists the index is scheduled.
C35_AccessPersistedAtExit ==
    (session # << >> /\ session.exited) =>
        /\ indexFile # << >>
        /\ indexFile[1].records = pathRecords

-----------------------------------------------------------------------------
(* Claims about the goroutines of the history UI                           *)

\* C34: within one lifetime of the cache entries the dispatcher is asked at
\* most once for each command, however the lookups of the debouncer
\* goroutine and of the main goroutine interleave.
C34_OneDispatchPerLifetime ==
    lookups # << >> => \A cmd \in DOMAIN lookups.dispatched : lookups.dispatched[cmd] <= 1

\* C38: in the history UI, after a key that changes the input buffer the
\* suggestion list is recomputed for the resulting buffer: once the event
\* loop is idle, the debouncer goroutine waits and the timer is not armed,
\* the query last searched is the input buffer.
C38_BufferIsSearched ==
    (/\ debounce # << >>
     /\ "rows" \in DOMAIN debounce
     /\ debounce.fault = << >>
     /\ debounce.key = "idle"
     /\ debounce.debouncer = "select"
     /\ debounce.searchDebouncer = << >>)
        => debounce.lastSearchQuery = debounce.inputBuffer

\* C39: in the history UI no sequence of keys makes a handler read the
\* suggestion list out of range.
C39_NoOutOfRangeRead ==
    (debounce # << >> /\ "fault" \in DOMAIN debounce) => debounce.fault = << >>

-----------------------------------------------------------------------------
(* Claims about what leaves the machine                                    *)

\* C31: no operation sends any part of a history command over the network:
\* the help lookup of a command makes no request that carries a word of it.
C31_NothingSentOverNetwork ==
    helpResult # << >> =>
        \A url \in Requests(helpResult[1].cmdParts) :
            \A i \in DOMAIN url, j \in DOMAIN helpResult[1].cmdParts :
                url[i] # helpResult[1].cmdParts[j]

=============================================================================
